---- MODULE Spec2Model ----
(***************************************************************************)
(* A model of the claim publication pipeline of prototype/provisioning:    *)
(* createjwt.py (token encoder, target resolver, record chunker,           *)
(* publication driver) and dns_update.py (TSIG key loader, update          *)
(* transmitter).                                                           *)
(*                                                                         *)
(* Text is modelled as sequences of byte values (ASCII codes), so that     *)
(* parsing, case folding, splitting and base64 are computed as the code    *)
(* computes them.  A Python value that may be None is a sequence of length *)
(* at most one: <<>> is None, <<v>> is the value v.                        *)
(***************************************************************************)
EXTENDS Integers, Sequences, FiniteSets, TLC

\* ------------------------------------------------------------------ bounds
\* The number of lines of the input file is at most MaxLines.
MaxLines == 2

\* --------------------------------------------------------- program constants
\* createjwt.py:14
MAX_TXT_STRING_LEN == 255

\* The longest text given to the chunker on its own: two full strings and a
\* remainder.
MaxTokenLen == 515

\* A key file given to the key loader on its own has at most MaxKeyLines
\* lines.
MaxKeyLines == 2

\* ------------------------------------------------------------ byte strings
\* 'dns'
S_dns == <<100,110,115>>
\* 'CLASS'
S_CLASS == <<67,76,65,83,83>>
\* 'TYPE'
S_TYPE == <<84,89,80,69>>
\* 'IN'
S_IN == <<73,78>>
\* 'TXT'
S_TXT == <<84,88,84>>
\* 'diem_id'
S_diem_id == <<100,105,101,109,95,105,100>>
\* 'alg'
S_alg == <<97,108,103>>
\* 'none'
S_none == <<110,111,110,101>>

None == <<>>
Some(v) == <<v>>

\* ------------------------------------------------------- Python str methods
IsUpper(b) == b >= 65 /\ b <= 90
IsAlpha(b) == IsUpper(b) \/ (b >= 97 /\ b <= 122)
IsDigit(b) == b >= 48 /\ b <= 57
\* str.isspace for ASCII: space, \t, \n, \v, \f, \r
IsSpace(b) == b \in {32, 9, 10, 11, 12, 13}

\* str.lower
Lower(s) == [i \in 1..Len(s) |-> IF IsUpper(s[i]) THEN s[i] + 32 ELSE s[i]]

\* str.find(c) + 1: the 1-based index of the first c in s, 0 when there is none
Find(s, c) ==
    IF \E i \in 1..Len(s) : s[i] = c
    THEN CHOOSE i \in 1..Len(s) : s[i] = c /\ \A j \in 1..(i-1) : s[j] # c
    ELSE 0

\* s.split(c, maxsplit=1)
Split1(s, c) ==
    LET i == Find(s, c)
    IN  IF i = 0 THEN <<s>>
        ELSE <<SubSeq(s, 1, i-1), SubSeq(s, i+1, Len(s))>>

\* s.split(c): ''.split(c) is ['']
RECURSIVE Split(_, _)
Split(s, c) ==
    LET i == Find(s, c)
    IN  IF i = 0 THEN <<s>>
        ELSE <<SubSeq(s, 1, i-1)>> \o Split(SubSeq(s, i+1, Len(s)), c)

\* s.strip()
RECURSIVE LStrip(_)
LStrip(s) == IF s # <<>> /\ IsSpace(Head(s)) THEN LStrip(Tail(s)) ELSE s
RECURSIVE RStrip(_)
RStrip(s) ==
    IF s # <<>> /\ IsSpace(s[Len(s)]) THEN RStrip(SubSeq(s, 1, Len(s)-1)) ELSE s
Strip(s) == RStrip(LStrip(s))

\* sep.join(parts)
RECURSIVE Join(_, _)
Join(sep, parts) ==
    IF parts = <<>> THEN <<>>
    ELSE IF Len(parts) = 1 THEN parts[1]
    ELSE parts[1] \o sep \o Join(sep, Tail(parts))

\* ------------------------------------------------------------------- json
\* A JSON document of the model is an object whose keys and values are
\* strings: a sequence of <<key, value>> pairs in insertion order (a Python
\* dict).  A string is a sequence of code points.

\* A hexadecimal digit as json.dumps writes it (lower case)
HexChar(d) == IF d < 10 THEN 48 + d ELSE 87 + d

\* '\uXXXX'
UEscape(c) ==
    <<92, 117, HexChar(c \div 4096), HexChar((c \div 256) % 16),
      HexChar((c \div 16) % 16), HexChar(c % 16)>>

\* json.dumps of one character with ensure_ascii (the default): '"' and '\'
\* are escaped with a backslash, \b \f \n \r \t have their short forms, the
\* other characters from ' ' to '~' stand for themselves, and every other
\* character is written \uXXXX (as a surrogate pair above U+FFFF).
JsonChar(c) ==
    IF c = 34 THEN <<92, 34>>
    ELSE IF c = 92 THEN <<92, 92>>
    ELSE IF c = 10 THEN <<92, 110>>
    ELSE IF c = 13 THEN <<92, 114>>
    ELSE IF c = 9 THEN <<92, 116>>
    ELSE IF c = 12 THEN <<92, 102>>
    ELSE IF c = 8 THEN <<92, 98>>
    ELSE IF c >= 32 /\ c <= 126 THEN <<c>>
    ELSE IF c < 65536 THEN UEscape(c)
    ELSE UEscape(55296 + ((c - 65536) \div 1024))
         \o UEscape(56320 + ((c - 65536) % 1024))

RECURSIVE JsonChars(_)
JsonChars(s) == IF s = <<>> THEN <<>> ELSE JsonChar(Head(s)) \o JsonChars(Tail(s))

JsonString(s) == <<34>> \o JsonChars(s) \o <<34>>

\* dict.__setitem__: a key already present keeps its place
DictSet(obj, key, value) ==
    IF \E i \in 1..Len(obj) : obj[i][1] = key
    THEN [i \in 1..Len(obj) |-> IF obj[i][1] = key THEN <<key, value>> ELSE obj[i]]
    ELSE Append(obj, <<key, value>>)

\* json.loads.  A failed scan is [ok |-> FALSE]; a successful one carries the
\* value and the position after it.
JsonFail == [ok |-> FALSE, value |-> <<>>, next |-> 0]

\* The whitespace JSON allows between tokens: space, \t, \n, \r
IsJsonWs(b) == b \in {32, 9, 10, 13}

\* The position of the first character at or after i that is not whitespace
\* (Len(t) + 1 when there is none)
SkipWs(t, i) ==
    CHOOSE j \in i..(Len(t) + 1) :
        /\ j = Len(t) + 1 \/ ~IsJsonWs(t[j])
        /\ \A k \in i..(j-1) : IsJsonWs(t[k])

\* The value of a hexadecimal digit, -1 for any other character
HexVal(b) ==
    IF b >= 48 /\ b <= 57 THEN b - 48
    ELSE IF b >= 97 /\ b <= 102 THEN b - 87
    ELSE IF b >= 65 /\ b <= 70 THEN b - 55
    ELSE 0 - 1

\* t[i..i+5] is \uXXXX
IsUEscape(t, i) ==
    /\ i + 5 <= Len(t)
    /\ t[i] = 92 /\ t[i+1] = 117
    /\ \A k \in 2..5 : HexVal(t[i+k]) >= 0

UEscapeVal(t, i) ==
    HexVal(t[i+2]) * 4096 + HexVal(t[i+3]) * 256 + HexVal(t[i+4]) * 16
    + HexVal(t[i+5])

\* The character a short escape stands for, -1 when there is no such escape
ShortEscape(b) ==
    IF b \in {34, 92, 47} THEN b
    ELSE IF b = 98 THEN 8
    ELSE IF b = 102 THEN 12
    ELSE IF b = 110 THEN 10
    ELSE IF b = 114 THEN 13
    ELSE IF b = 116 THEN 9
    ELSE 0 - 1

\* The string whose opening quote precedes position i; acc is what has been
\* read of it.  A control character in a string is an error.
RECURSIVE ScanString(_, _, _)
ScanString(t, i, acc) ==
    IF i > Len(t) THEN JsonFail
    ELSE IF t[i] = 34 THEN [ok |-> TRUE, value |-> acc, next |-> i + 1]
    ELSE IF t[i] = 92 THEN
        IF i + 1 <= Len(t) /\ ShortEscape(t[i+1]) >= 0
        THEN ScanString(t, i + 2, Append(acc, ShortEscape(t[i+1])))
        ELSE IF IsUEscape(t, i)
        THEN LET \* hi is the escaped value, lo the one of the escape that
                 \* follows it (-1 when none does)
                 Escaped(hi, lo) ==
                     IF /\ hi >= 55296 /\ hi <= 56319
                        /\ lo >= 56320 /\ lo <= 57343
                     THEN ScanString(t, i + 12,
                              Append(acc, 65536 + (hi - 55296) * 1024
                                          + (lo - 56320)))
                     ELSE ScanString(t, i + 6, Append(acc, hi))
             IN  Escaped(UEscapeVal(t, i),
                         IF IsUEscape(t, i + 6) THEN UEscapeVal(t, i + 6)
                         ELSE 0 - 1)
        ELSE JsonFail
    ELSE IF t[i] < 32 THEN JsonFail
    ELSE ScanString(t, i + 1, Append(acc, t[i]))

\* The pairs of an object from position i, where a key must start; acc is
\* the dict built so far.
RECURSIVE ScanPairs(_, _, _)
ScanPairs(t, i, acc) ==
    LET \* k and v are the scans of the key and of the value, e the
        \* position of what follows the value
        AfterValue(k, v, e) ==
            IF e > Len(t) THEN JsonFail
            ELSE IF t[e] = 125
            THEN [ok |-> TRUE, value |-> DictSet(acc, k.value, v.value),
                  next |-> e + 1]
            ELSE IF t[e] = 44
            THEN ScanPairs(t, SkipWs(t, e + 1), DictSet(acc, k.value, v.value))
            ELSE JsonFail
        Value(k, v) ==
            IF ~v.ok THEN JsonFail ELSE AfterValue(k, v, SkipWs(t, v.next))
        \* q is the position where the value must start
        AfterColon(k, q) ==
            IF q > Len(t) \/ t[q] # 34 THEN JsonFail
            ELSE Value(k, ScanString(t, q + 1, <<>>))
        \* c is the position where the ':' must be
        AfterKey(k, c) ==
            IF c > Len(t) \/ t[c] # 58 THEN JsonFail
            ELSE AfterColon(k, SkipWs(t, c + 1))
        Key(k) ==
            IF ~k.ok THEN JsonFail ELSE AfterKey(k, SkipWs(t, k.next))
    IN  IF i > Len(t) \/ t[i] # 34 THEN JsonFail
        ELSE Key(ScanString(t, i + 1, <<>>))

\* json.loads(text) for the documents of the model: text that is not one
\* object of strings, with nothing but whitespace around it, is a
\* JSONDecodeError (ok = FALSE).
json_loads(text) ==
    LET Fail == [ok |-> FALSE, value |-> <<>>]
        \* r is the scan of the object: nothing but whitespace may follow
        Whole(r) ==
            IF r.ok /\ SkipWs(text, r.next) > Len(text)
            THEN [ok |-> TRUE, value |-> r.value]
            ELSE Fail
        \* a is the position after the '{' and the whitespace that follows
        Object(a) ==
            Whole(IF a <= Len(text) /\ text[a] = 125
                  THEN [ok |-> TRUE, value |-> <<>>, next |-> a + 1]
                  ELSE ScanPairs(text, a, <<>>))
        \* s is the position of the first character that is not whitespace
        Start(s) ==
            IF s > Len(text) \/ text[s] # 123 THEN Fail
            ELSE Object(SkipWs(text, s + 1))
    IN  Start(SkipWs(text, 1))

\* json.dumps(obj, separators=(isep, ksep))
JsonDumps(obj, isep, ksep) ==
    <<123>>
    \o Join(isep, [i \in 1..Len(obj) |->
                     JsonString(obj[i][1]) \o ksep \o JsonString(obj[i][2])])
    \o <<125>>

\* json.dumps(obj): separators (', ', ': ')
JsonDumpsDefault(obj) == JsonDumps(obj, <<44,32>>, <<58,32>>)
\* json.dumps(obj, separators=(',',':'))
JsonDumpsCompact(obj) == JsonDumps(obj, <<44>>, <<58>>)

\* dict.__getitem__: obj[key], None standing for KeyError
DictGet(obj, key) ==
    IF \E i \in 1..Len(obj) : obj[i][1] = key
    THEN Some(obj[(CHOOSE i \in 1..Len(obj) :
                      obj[i][1] = key
                      /\ \A j \in (i+1)..Len(obj) : obj[j][1] # key)][2])
    ELSE None

\* -------------------------------------------------------------- exceptions
\* A raised exception: its Python type, what its message says, and the
\* value the message names (in a sequence; empty when it names none).
Exc(type, msg, detail) == [type |-> type, msg |-> msg, detail |-> detail]
NoExc == Exc("", "", <<>>)

\* ----------------------------------------------------------------- base64
\* The URL-safe alphabet: A-Z a-z 0-9 - _
B64Char(n) ==
    IF n < 26 THEN 65 + n
    ELSE IF n < 52 THEN 97 + (n - 26)
    ELSE IF n < 62 THEN 48 + (n - 52)
    ELSE IF n = 62 THEN 45 ELSE 95

\* base64.urlsafe_b64encode: '=' (61) pads the last group to four characters
RECURSIVE urlsafe_b64encode(_)
urlsafe_b64encode(s) ==
    IF s = <<>> THEN <<>>
    ELSE IF Len(s) = 1 THEN
        <<B64Char(s[1] \div 4), B64Char((s[1] % 4) * 16), 61, 61>>
    ELSE IF Len(s) = 2 THEN
        <<B64Char(s[1] \div 4),
          B64Char((s[1] % 4) * 16 + s[2] \div 16),
          B64Char((s[2] % 16) * 4), 61>>
    ELSE
        <<B64Char(s[1] \div 4),
          B64Char((s[1] % 4) * 16 + s[2] \div 16),
          B64Char((s[2] % 16) * 4 + s[3] \div 64),
          B64Char(s[3] % 64)>>
        \o urlsafe_b64encode(SubSeq(s, 4, Len(s)))

\* bytes.rstrip(b'=')
RECURSIVE RStripPad(_)
RStripPad(s) ==
    IF s # <<>> /\ s[Len(s)] = 61 THEN RStripPad(SubSeq(s, 1, Len(s)-1)) ELSE s

\* str.encode('utf-8'); the JSON text the encoder is given is ASCII, and no
\* text of the model holds a lone surrogate
RECURSIVE utf8_encode(_)
utf8_encode(s) ==
    IF s = <<>> THEN <<>>
    ELSE LET c == Head(s)
             b == IF c < 128 THEN <<c>>
                  ELSE IF c < 2048 THEN <<192 + (c \div 64), 128 + (c % 64)>>
                  ELSE IF c < 65536
                  THEN <<224 + (c \div 4096), 128 + ((c \div 64) % 64),
                         128 + (c % 64)>>
                  ELSE <<240 + (c \div 262144), 128 + ((c \div 4096) % 64),
                         128 + ((c \div 64) % 64), 128 + (c % 64)>>
         IN  b \o utf8_encode(Tail(s))

\* createjwt.py:28-30
jwt_base64encode(s) == RStripPad(urlsafe_b64encode(utf8_encode(s)))

\* A continuation byte of UTF-8
IsCont(b) == b >= 128 /\ b <= 191

\* bytes.decode('utf-8'): ok = FALSE is a UnicodeDecodeError (a stray or
\* missing continuation byte, an overlong form, a surrogate, a value above
\* U+10FFFF).  acc is what has been decoded so far.
RECURSIVE utf8_decode(_, _)
utf8_decode(b, acc) ==
    IF \A i \in 1..Len(b) : b[i] < 128 THEN [ok |-> TRUE, value |-> acc \o b]
    ELSE LET c == b[1]
             n == Len(b)
         IN  IF c < 128 THEN utf8_decode(Tail(b), Append(acc, c))
             ELSE IF c >= 194 /\ c <= 223 /\ n >= 2 /\ IsCont(b[2])
             THEN utf8_decode(SubSeq(b, 3, n),
                              Append(acc, (c - 192) * 64 + (b[2] - 128)))
             ELSE IF /\ c >= 224 /\ c <= 239 /\ n >= 3
                     /\ IsCont(b[2]) /\ IsCont(b[3])
                     /\ (c = 224 => b[2] >= 160)
                     /\ (c = 237 => b[2] <= 159)
             THEN utf8_decode(SubSeq(b, 4, n),
                              Append(acc, (c - 224) * 4096 + (b[2] - 128) * 64
                                          + (b[3] - 128)))
             ELSE IF /\ c >= 240 /\ c <= 244 /\ n >= 4
                     /\ IsCont(b[2]) /\ IsCont(b[3]) /\ IsCont(b[4])
                     /\ (c = 240 => b[2] >= 144)
                     /\ (c = 244 => b[2] <= 143)
             THEN utf8_decode(SubSeq(b, 5, n),
                              Append(acc, (c - 240) * 262144 + (b[2] - 128) * 4096
                                          + (b[3] - 128) * 64 + (b[4] - 128)))
             ELSE [ok |-> FALSE, value |-> <<>>]

\* The value of a character of the base64 alphabet, -1 for any other
\* character.  urlsafe_b64decode maps '-' and '_' to '+' and '/', which it
\* decodes as well.
B64Val(c) ==
    IF c >= 65 /\ c <= 90 THEN c - 65
    ELSE IF c >= 97 /\ c <= 122 THEN c - 71
    ELSE IF c >= 48 /\ c <= 57 THEN c + 4
    ELSE IF c = 45 \/ c = 43 THEN 62
    ELSE IF c = 95 \/ c = 47 THEN 63
    ELSE 0 - 1

\* binascii.a2b_base64 as base64.b64decode calls it (not strict).  The
\* characters outside the alphabet are skipped.  Reading stops at a '=' that
\* completes a group of four: one that follows three data characters of the
\* group, or two data characters and another '='.  Each group of four data
\* characters gives three bytes, a last group of three gives two, of two gives
\* one; when reading reaches the end with an incomplete group, that is a
\* binascii.Error (ok = FALSE).
IsB64Data(c) == B64Val(c) >= 0
IsB64DataOrPad(c) == c = 61 \/ B64Val(c) >= 0

a2b_base64(s) ==
    LET \* v holds the values of the data characters read, n of them
        Bytes(v, n, stopped) ==
            LET m == (n \div 4) * 3
                     + (IF n % 4 = 3 THEN 2 ELSE IF n % 4 = 2 THEN 1 ELSE 0)
                Byte(k, g) ==
                    IF (k - 1) % 3 = 0 THEN v[g+1] * 4 + (v[g+2] \div 16)
                    ELSE IF (k - 1) % 3 = 1
                    THEN (v[g+2] % 16) * 16 + (v[g+3] \div 4)
                    ELSE (v[g+3] % 4) * 64 + v[g+4]
            IN  IF ~stopped /\ n % 4 # 0 THEN [ok |-> FALSE, value |-> <<>>]
                ELSE [ok |-> TRUE,
                      value |-> [k \in 1..m |-> Byte(k, 4 * ((k - 1) \div 3))]]
        Values(data, stopped) ==
            Bytes([i \in 1..Len(data) |-> B64Val(data[i])], Len(data), stopped)
        \* d holds the data characters and the '=' of s; before[j] is the
        \* number of data characters before d[j]
        Read(d, before) ==
            LET Stops(j) == /\ d[j] = 61
                            /\ \/ before[j] % 4 = 3
                               \/ before[j] % 4 = 2 /\ j > 1 /\ d[j-1] = 61
                Upto(stop) ==
                    Values(SelectSeq(SubSeq(d, 1, stop - 1), IsB64Data),
                           stop <= Len(d))
            IN  Upto(CHOOSE j \in 1..(Len(d) + 1) :
                        /\ j = Len(d) + 1 \/ Stops(j)
                        /\ \A k \in 1..(j-1) : ~Stops(k))
        Data(d) ==
            Read(d, [j \in 1..Len(d) |->
                        Len(SelectSeq(SubSeq(d, 1, j - 1), IsB64Data))])
    IN  Data(SelectSeq(s, IsB64DataOrPad))

\* base64.urlsafe_b64decode(s) for a str s: a character that is not ASCII is
\* a ValueError
urlsafe_b64decode(s) ==
    IF \E i \in 1..Len(s) : s[i] > 127
    THEN [ok |-> FALSE, value |-> <<>>]
    ELSE a2b_base64(s)

\* jwt_base64decode with the padding left off: the segment is handed to the
\* base64 decoder as it is.
jwt_base64decode_Unpadded(s) ==
    LET AsText(b, t) ==
            IF ~b.ok \/ ~t.ok
            THEN [raised |-> TRUE, value |-> <<>>,
                  exc |-> Exc("binascii.Error", "", <<>>)]
            ELSE [raised |-> FALSE, value |-> t.value, exc |-> NoExc]
        Decoded(b) == AsText(b, utf8_decode(b.value, <<>>))
    IN  Decoded(urlsafe_b64decode(s))

\* createjwt.py:16-26.  The exceptions are all ValueErrors: the one raised
\* at line 25, binascii.Error and UnicodeDecodeError.
jwt_base64decode(s) ==
    LET \* b is what the base64 decoder gives, t the text its bytes decode to
        AsText(rem, b, t) ==
            IF rem = 1
            THEN [raised |-> TRUE, value |-> <<>>,
                  exc |-> Exc("ValueError", "Incorrect length of base64-encoded string", <<s>>)]
            ELSE IF ~b.ok
            THEN [raised |-> TRUE, value |-> <<>>,
                  exc |-> IF \E i \in 1..Len(s) : s[i] > 127
                          THEN Exc("ValueError", "string argument should contain only ASCII characters", <<>>)
                          ELSE Exc("binascii.Error", "", <<>>)]
            ELSE IF ~t.ok
            THEN [raised |-> TRUE, value |-> <<>>,
                  exc |-> Exc("UnicodeDecodeError", "", <<>>)]
            ELSE [raised |-> FALSE, value |-> t.value, exc |-> NoExc]
        Decoded(rem, b) == AsText(rem, b, utf8_decode(b.value, <<>>))
        Padded(rem) ==
            Decoded(rem, urlsafe_b64decode(IF rem = 2 THEN s \o <<61, 61>>
                                           ELSE IF rem = 3 THEN s \o <<61>>
                                           ELSE s))
    IN  Padded(Len(s) % 4)

\* { 'alg': 'none' }
UNSECURED_HEADER == << <<S_alg, S_none>> >>
UNSECURED_HEADER_ENCODED == jwt_base64encode(JsonDumpsCompact(UNSECURED_HEADER))

\* jwt_encode(claims, hdr=None): hdr is None (<<>>) or Some(header)
jwt_encode(claims, hdr) ==
    LET hdr_enc == IF hdr = None THEN UNSECURED_HEADER_ENCODED
                   ELSE jwt_base64encode(JsonDumpsCompact(hdr[1]))
        claims_enc == jwt_base64encode(JsonDumpsCompact(claims))
    IN  hdr_enc \o <<46>> \o claims_enc

\* jwt_decode without the length check of jwt_base64decode on the payload
\* segment: a payload that does not decode counts as an empty claim map.
jwt_decode_LenientPayload(s) ==
    LET Result(n, h, hdr, c, claims) ==
            IF n # 2 \/ h.raised \/ ~hdr.ok
            THEN [raised |-> TRUE, exc |-> Exc("ValueError", "", <<>>),
                  hdr |-> <<>>, claims |-> <<>>]
            ELSE [raised |-> FALSE, exc |-> NoExc, hdr |-> hdr.value,
                  claims |-> IF c.raised \/ ~claims.ok THEN <<>>
                             ELSE claims.value]
        Decoded(n, h, c) ==
            Result(n, h, json_loads(h.value), c, json_loads(c.value))
        Parts(parts) ==
            Decoded(Len(parts), jwt_base64decode(parts[1]),
                    jwt_base64decode(parts[2]))
    IN  Parts(Split1(s, 46))

\* createjwt.py:45-51: unpacking the result of split raises ValueError when
\* the token has no '.'; the header is decoded and parsed before the claims.
jwt_decode(s) ==
    LET Raise(e) == [raised |-> TRUE, exc |-> e, hdr |-> <<>>, claims |-> <<>>]
        \* h and c are the decoded segments, hdr and claims what they parse to
        Claims(hdr, claims) ==
            IF ~claims.ok THEN Raise(Exc("JSONDecodeError", "", <<>>))
            ELSE [raised |-> FALSE, exc |-> NoExc, hdr |-> hdr.value,
                  claims |-> claims.value]
        PayloadSegment(hdr, c) ==
            IF c.raised THEN Raise(c.exc) ELSE Claims(hdr, json_loads(c.value))
        Header(parts, hdr) ==
            IF ~hdr.ok THEN Raise(Exc("JSONDecodeError", "", <<>>))
            ELSE PayloadSegment(hdr, jwt_base64decode(parts[2]))
        HeaderSegment(parts, h) ==
            IF h.raised THEN Raise(h.exc)
            ELSE Header(parts, json_loads(h.value))
        Parts(parts) ==
            IF Len(parts) # 2
            THEN Raise(Exc("ValueError", "not enough values to unpack", <<>>))
            ELSE HeaderSegment(parts, jwt_base64decode(parts[1]))
    IN  Parts(Split1(s, 46))

\* ------------------------------------------------------- urllib.parse
\* The characters of a URI scheme: letters, digits, '+', '-', '.'
IsSchemeChar(b) == IsAlpha(b) \/ IsDigit(b) \/ b \in {43, 45, 46}

\* urllib.parse.urlparse(url): the scheme is what precedes the first ':'
\* when that is a letter followed by scheme characters, and it is lower-cased;
\* when '//' follows, the authority (netloc) runs up to the first '/', '?' or
\* '#'; the fragment follows the first '#' of what is left, the query the
\* first '?' of what is left of that, and the rest is the path.
urlparse(url) ==
    LET \* f is what is left split at the first '#', q its first piece
        \* split at the first '?'
        Result(scheme, netloc, f, q) ==
            [scheme |-> scheme,
             netloc |-> netloc,
             path |-> q[1],
             query |-> IF Len(q) = 2 THEN q[2] ELSE <<>>,
             fragment |-> IF Len(f) = 2 THEN f[2] ELSE <<>>]
        Fragment(scheme, netloc, f) ==
            Result(scheme, netloc, f, Split1(f[1], 63))
        \* rest is what follows the scheme; end is the position of the
        \* first '/', '?' or '#' after its '//'
        Authority(scheme, rest, hasNetloc, end) ==
            Fragment(scheme,
                     IF hasNetloc THEN SubSeq(rest, 3, end - 1) ELSE <<>>,
                     Split1(IF hasNetloc THEN SubSeq(rest, end, Len(rest))
                            ELSE rest, 35))
        Rest(scheme, rest) ==
            Authority(scheme, rest,
                      Len(rest) >= 2 /\ rest[1] = 47 /\ rest[2] = 47,
                      CHOOSE k \in 3..(Len(rest) + 1) :
                          /\ k = Len(rest) + 1 \/ rest[k] \in {47, 63, 35}
                          /\ \A j \in 3..(k-1) : rest[j] \notin {47, 63, 35})
        \* i is the position of the first ':'
        Scheme(i, hasScheme) ==
            Rest(IF hasScheme THEN Lower(SubSeq(url, 1, i-1)) ELSE <<>>,
                 IF hasScheme THEN SubSeq(url, i+1, Len(url)) ELSE url)
        Colon(i) ==
            Scheme(i, /\ i > 1
                      /\ IsAlpha(url[1])
                      /\ \A j \in 1..(i-1) : IsSchemeChar(url[j]))
    IN  Colon(Find(url, 58))

\* --------------------------------------------------------------- dns.name
\* A domain name is its sequence of labels, most specific first; an absolute
\* name ends with the empty label of the root.
root == << <<>> >>

\* dns.name.from_text(text) with the default origin (the root): the labels
\* are the pieces between dots; an empty piece anywhere but at the end is
\* the library's EmptyLabel error (ok = FALSE); a name with no trailing dot
\* is completed with the root.
dns_name_from_text(text) ==
    LET pieces == Split(text, 46)
        n == Len(pieces)
    IN  IF text = <<>> \/ text = <<46>> THEN [ok |-> TRUE, name |-> root]
        ELSE IF \E k \in 1..(n-1) : pieces[k] = <<>>
             THEN [ok |-> FALSE, name |-> <<>>]
        ELSE IF pieces[n] = <<>> THEN [ok |-> TRUE, name |-> pieces]
        ELSE [ok |-> TRUE, name |-> pieces \o root]

\* Name.is_absolute
is_absolute(name) == name # <<>> /\ name[Len(name)] = <<>>

\* Name.is_subdomain(other): self is other or below it.  Labels are compared
\* from the right, ignoring case; an absolute and a relative name are
\* unrelated.
is_subdomain(name, other) ==
    /\ is_absolute(name) = is_absolute(other)
    /\ Len(other) <= Len(name)
    /\ \A k \in 1..Len(other) :
          Lower(name[Len(name) - Len(other) + k]) = Lower(other[k])

\* name[n:], the Python slice of the label tuple
LabelsFrom(name, n) ==
    LET start == IF n >= 0 THEN n
                 ELSE IF Len(name) + n > 0 THEN Len(name) + n ELSE 0
    IN  SubSeq(name, start + 1, Len(name))

\* ---------------------------------------------------------- record chunker
\* createjwt.py:93-99: slices of at most MAX_TXT_STRING_LEN characters, in
\* order; the last one holds the remainder when there is one.
\* jwt_parts without the loop: the token is never split.
jwt_parts_Unsplit(jwt_rem) == IF jwt_rem # <<>> THEN <<jwt_rem>> ELSE <<>>

RECURSIVE jwt_parts(_)
jwt_parts(jwt_rem) ==
    IF Len(jwt_rem) > MAX_TXT_STRING_LEN
    THEN <<SubSeq(jwt_rem, 1, MAX_TXT_STRING_LEN)>>
         \o jwt_parts(SubSeq(jwt_rem, MAX_TXT_STRING_LEN + 1, Len(jwt_rem)))
    ELSE IF jwt_rem # <<>> THEN <<jwt_rem>> ELSE <<>>

\* createjwt.py:101: '"' + '" "'.join(jwt_parts) + '"'
jwt_rdata(parts) == <<34>> \o Join(<<34,32,34>>, parts) \o <<34>>

\* --------------------------------------------------------- TSIG key loader
\* A key file is the sequence of its lines.

\* The position after the run of whitespace that starts at i (i itself when
\* there is none)
SpaceEnd(line, i) ==
    CHOOSE j \in i..(Len(line) + 1) :
        /\ j = Len(line) + 1 \/ ~IsSpace(line[j])
        /\ \A k \in i..(j-1) : IsSpace(line[k])

\* The position of the first '"' at or after i (Len(line) + 1 when there is
\* none)
QuoteAt(line, i) ==
    CHOOSE j \in i..(Len(line) + 1) :
        /\ j = Len(line) + 1 \/ line[j] = 34
        /\ \A k \in i..(j-1) : line[k] # 34

\* The position after the run of characters other than ';' and whitespace
\* that starts at i
TokenEnd(line, i) ==
    CHOOSE j \in i..(Len(line) + 1) :
        /\ j = Len(line) + 1 \/ line[j] = 59 \/ IsSpace(line[j])
        /\ \A k \in i..(j-1) : line[k] # 59 /\ ~IsSpace(line[k])

NoMatch == [ok |-> FALSE, group |-> <<>>, end |-> 0]

\* word\s+"([^"]+)" matched at position p of the line (TSIG_KEY_RE and
\* TSIG_SECRET_RE, dns_update.py:15,17): the word, whitespace, and between
\* two '"' at least one character that is not '"'.  end is the position
\* after the match.
MatchQuoted(line, p, word) ==
    LET w == p + Len(word)
        q == SpaceEnd(line, w)
        e == QuoteAt(line, q + 1)
    IN  IF /\ w - 1 <= Len(line)
           /\ SubSeq(line, p, w - 1) = word
           /\ q > w
           /\ q <= Len(line)
           /\ line[q] = 34
           /\ e > q + 1
           /\ e <= Len(line)
        THEN [ok |-> TRUE, group |-> SubSeq(line, q + 1, e - 1), end |-> e + 1]
        ELSE NoMatch

\* algorithm\s+([^;\s]+) matched at position p of the line (TSIG_ALG_RE,
\* dns_update.py:16)
MatchAlgorithm(line, p) ==
    LET word == <<97,108,103,111,114,105,116,104,109>>    \* 'algorithm'
        w == p + Len(word)
        q == SpaceEnd(line, w)
        e == TokenEnd(line, q)
    IN  IF /\ w - 1 <= Len(line)
           /\ SubSeq(line, p, w - 1) = word
           /\ q > w
           /\ e > q
        THEN [ok |-> TRUE, group |-> SubSeq(line, q, e - 1), end |-> e]
        ELSE NoMatch

\* The pattern ("key", "alg" or "secret") matched at position p
MatchAt(line, p, pattern) ==
    \* 'key' and 'secret'
    IF pattern = "key" THEN MatchQuoted(line, p, <<107,101,121>>)
    ELSE IF pattern = "secret"
    THEN MatchQuoted(line, p, <<115,101,99,114,101,116>>)
    ELSE MatchAlgorithm(line, p)

\* Search with the matches of the line taken from the right: the last
\* occurrence.
Search_Rightmost(line, pattern) ==
    LET Rightmost(m) ==
            IF \E p \in 1..Len(line) : m[p].ok
            THEN Some(m[CHOOSE p \in 1..Len(line) :
                            /\ m[p].ok
                            /\ \A r \in (p+1)..Len(line) : ~m[r].ok].group)
            ELSE None
    IN  Rightmost([p \in 1..Len(line) |-> MatchAt(line, p, pattern)])

\* PATTERN.search(line), then m.group(1): the match that starts leftmost;
\* None when the line has none
Search(line, pattern) ==
    \* m[p] is the match that starts at position p
    LET Leftmost(m) ==
            IF \E p \in 1..Len(line) : m[p].ok
            THEN Some(m[CHOOSE p \in 1..Len(line) :
                            /\ m[p].ok
                            /\ \A r \in 1..(p-1) : ~m[r].ok].group)
            ELSE None
    IN  Leftmost([p \in 1..Len(line) |-> MatchAt(line, p, pattern)])

\* The value a variable of parse_tsig_key_file holds after the loop: what
\* the last line that has a match assigned to it.  Each line is stripped
\* before it is searched.
RECURSIVE LastAssigned(_, _)
LastAssigned(file, pattern) ==
    IF file = <<>> THEN None
    ELSE LET Assigned(m) ==
                 IF m # None THEN m
                 ELSE LastAssigned(SubSeq(file, 1, Len(file)-1), pattern)
         IN  Assigned(Search(Strip(file[Len(file)]), pattern))

\* parse_tsig_key_file(file): dns.tsigkeyring.from_text({ key: secret })
\* raises when the key name or the secret is None.
parse_tsig_key_file(file) ==
    LET from_text(key, alg, secret) ==
            IF key = None \/ secret = None
            THEN [raised |-> TRUE,
                  exc |-> Exc("Exception", "tsigkeyring.from_text", <<>>),
                  keyring |-> None, alg |-> None]
            ELSE [raised |-> FALSE, exc |-> NoExc,
                  keyring |-> Some([name |-> key[1], secret |-> secret[1]]),
                  alg |-> alg]
    IN  from_text(LastAssigned(file, "key"), LastAssigned(file, "alg"),
                  LastAssigned(file, "secret"))

\* ------------------------------------------------------- update transmitter
\* The parameters of send_update: those without and those with a default.
SEND_UPDATE_REQUIRED == <<"zone", "name", "ttl", "rdtype", "contents", "server">>
SEND_UPDATE_OPTIONAL == <<"keyring", "alg">>

\* Python's binding of a call send_update(<npos positional>, <kws keywords>):
\* FALSE is a TypeError raised by the call, before the body runs.
CallBinds(npos, kws) ==
    LET params == SEND_UPDATE_REQUIRED \o SEND_UPDATE_OPTIONAL
    IN  /\ npos <= Len(params)
        /\ \A k \in kws : \E i \in (npos+1)..Len(params) : params[i] = k
        /\ \A i \in 1..Len(SEND_UPDATE_REQUIRED) :
              i <= npos \/ SEND_UPDATE_REQUIRED[i] \in kws

\* What dns.query.tcp can come back with: a response carrying an rcode, or
\* an exception of the transport.
Replies ==
    { [kind |-> "response", rcode |-> "NOERROR"],
      [kind |-> "response", rcode |-> "REFUSED"],
      [kind |-> "response", rcode |-> "NOTAUTH"],
      [kind |-> "error", rcode |-> ""] }

\* send_update(zone, name, ttl, rdtype, contents, server, keyring, alg) with
\* `reply` what dns.query.tcp comes back with.  The message is transmitted
\* when there is a server address to connect to.
send_update(zone, name, ttl, rdtype, contents, server, keyring, alg, reply) ==
    LET msg == [zone |-> zone, keyring |-> keyring, keyalgorithm |-> alg,
                name |-> name, ttl |-> ttl, rdtype |-> rdtype,
                contents |-> contents]
    IN  IF server = None
        THEN [msg |-> msg, sent |-> FALSE, raised |-> TRUE,
              exc |-> Exc("Exception", "dns.query.tcp", <<>>)]
        ELSE IF reply.kind = "error"
        THEN [msg |-> msg, sent |-> TRUE, raised |-> TRUE,
              exc |-> Exc("OSError", "dns.query.tcp", <<>>)]
        ELSE IF reply.rcode # "NOERROR"
        THEN [msg |-> msg, sent |-> TRUE, raised |-> TRUE,
              exc |-> Exc("UpdateError", "updated failed with rcode",
                          <<reply.rcode>>)]
        ELSE [msg |-> msg, sent |-> TRUE, raised |-> FALSE, exc |-> NoExc]

\* ---------------------------------------------------------- target resolver
\* SchemeOk with the comparison against 'dns' lost: any scheme passes.
SchemeOk_AnyScheme(url2) == url2.scheme # <<>>

\* createjwt.py:72
SchemeOk(url2) == url2.scheme = S_dns

\* createjwt.py:75: dict([p.split('=', maxsplit=1) for p in query.split(';')]).
\* dict() raises ValueError for an element that is not a pair (ok = FALSE).
query_pairs(query) ==
    LET parts == Split(query, 59)
        kv == [i \in 1..Len(parts) |-> Split1(parts[i], 61)]
    IN  [ok |-> \A i \in 1..Len(kv) : Len(kv[i]) = 2, pairs |-> kv]

\* createjwt.py:76, both keys present
ClassTypeOk(pairs) ==
    <<DictGet(pairs, S_CLASS)[1], DictGet(pairs, S_TYPE)[1]>> = <<S_IN, S_TXT>>

\* InZone comparing the depths of the names only.
InZone_DepthOnly(name, zone) == Len(zone) <= Len(name)

\* createjwt.py:81
InZone(name, zone) == is_subdomain(name, zone)

\* createjwt.py:68-85, the part of upload_jwt that makes no network call:
\* the owner name, the zone and the record type of the target, or the
\* exception raised.  zone and subzone_labels are None or Some(value).
Rejected(e) == [raised |-> TRUE, exc |-> e, name |-> None, zone |-> None,
                rdtype |-> <<>>]
upload_jwt_target(url, zone, subzone_labels) ==
    LET \* url2 is the parsed URI, q the pairs of its query, n the name
        \* its path gives
        Target(url2, q, n) ==
            IF zone = None /\ subzone_labels = None
            THEN Rejected(Exc("AssertionError", "", <<>>))
            ELSE IF ~SchemeOk(url2)
            THEN Rejected(Exc("ValueError", "Incorrect scheme", <<url2.scheme>>))
            ELSE IF ~q.ok
            THEN Rejected(Exc("ValueError", "dictionary update sequence element", <<>>))
            ELSE IF DictGet(q.pairs, S_CLASS) = None
            THEN Rejected(Exc("KeyError", "CLASS", <<>>))
            ELSE IF DictGet(q.pairs, S_TYPE) = None
            THEN Rejected(Exc("KeyError", "TYPE", <<>>))
            ELSE IF ~ClassTypeOk(q.pairs)
            THEN Rejected(Exc("ValueError", "Incorrect class/type", <<url2.query>>))
            ELSE IF ~n.ok
            THEN Rejected(Exc("EmptyLabel", "", <<>>))
            ELSE IF zone # None /\ ~InZone(n.name, zone[1])
            THEN Rejected(Exc("ValueError", "Name out of zone", <<url2.path>>))
            ELSE [raised |-> FALSE, exc |-> NoExc, name |-> Some(n.name),
                  zone |-> IF zone # None THEN zone
                           ELSE Some(LabelsFrom(n.name, subzone_labels[1])),
                  rdtype |-> DictGet(q.pairs, S_TYPE)[1]]
        Parsed(url2) ==
            Target(url2, query_pairs(url2.query), dns_name_from_text(url2.path))
    IN  Parsed(urlparse(url))

\* createjwt.py:105: the one exception type upload_jwt handles
Handled(e) == e.type = "AssertionError"

\* The keywords of the call of send_update at createjwt.py:103-104, which
\* passes six positional arguments.
UPLOAD_CALL_KEYWORDS == {"keyring", "alg", "tcp"}

\* ------------------------------------------------------------------ inputs
\* 'dns:a.z?CLASS=IN;TYPE=TXT'
U_good == <<100,110,115,58,97,46,122,63,67,76,65,83,83,61,73,78,59,84,89,80,69,61,84,88,84>>
\* 'DNS:a.z?CLASS=IN;TYPE=TXT'
U_upper == <<68,78,83,58,97,46,122,63,67,76,65,83,83,61,73,78,59,84,89,80,69,61,84,88,84>>
\* 'ftp:a.z?CLASS=IN;TYPE=TXT'
U_other == <<102,116,112,58,97,46,122,63,67,76,65,83,83,61,73,78,59,84,89,80,69,61,84,88,84>>
\* 'dns:a.z?CLASS=IN;TYPE=A'
U_typeA == <<100,110,115,58,97,46,122,63,67,76,65,83,83,61,73,78,59,84,89,80,69,61,65>>
\* 'dns:a.z?CLASS=IN'
U_notype == <<100,110,115,58,97,46,122,63,67,76,65,83,83,61,73,78>>
\* 'dns:a.z'
U_noquery == <<100,110,115,58,97,46,122>>
\* 'dns:a.y?CLASS=IN;TYPE=TXT'
U_outzone == <<100,110,115,58,97,46,121,63,67,76,65,83,83,61,73,78,59,84,89,80,69,61,84,88,84>>
\* 'dns:a.b.z?CLASS=IN;TYPE=TXT'
U_deep == <<100,110,115,58,97,46,98,46,122,63,67,76,65,83,83,61,73,78,59,84,89,80,69,61,84,88,84>>
\* '{bad'
T_bad == <<123,98,97,100>>
TargetURIs ==
    {U_good, U_upper, U_other, U_typeA, U_notype, U_noquery, U_outzone, U_deep}

\* The claim records of the model: one with each target URI.
ClaimRecords == { << <<S_diem_id, u>> >> : u \in TargetURIs }

\* The lines an input file is made of: a claim record as an importer writes
\* it (json.dumps with the default separators), or text that is not JSON;
\* each ends with a newline.
InputLines ==
    { JsonDumpsDefault(c) \o <<10>> : c \in ClaimRecords } \cup { T_bad \o <<10>> }

\* The zone 'z.'
Z_zone == << <<122>>, <<>> >>

\* What the name service can answer: socket.getaddrinfo yields addresses or
\* raises gaierror; the SOA query yields an answer carrying the MNAME or raises
\* a DNSException.
GetaddrinfoOutcomes ==
    { [ok |-> FALSE, addrs |-> <<>>], [ok |-> TRUE, addrs |-> <<"192.0.2.53">>] }
SoaOutcomes ==
    { [ok |-> FALSE, mname |-> ""], [ok |-> TRUE, mname |-> "ns.z."] }

\* get_addr_for_name(n), `o` being what getaddrinfo(n, 53) does
get_addr_for_name(n, o) == IF o.ok THEN Some(o.addrs[1]) ELSE None

\* get_mname_for_zone(n), `o` being what resolve(n, 'SOA') does
get_mname_for_zone(n, o) == IF o.ok THEN Some(o.mname) ELSE None

\* The lines key files are made of
L_key1 == <<107,101,121,32,34,107,49,34,32,123,10>>
L_alg256 == <<32,32,32,32,97,108,103,111,114,105,116,104,109,32,104,109,97,99,45,115,104,97,50,53,54,59,10>>
L_secret1 == <<32,32,32,32,115,101,99,114,101,116,32,34,99,50,86,106,99,109,86,48,34,59,10>>
L_close == <<125,59,10>>

\* Key files: a complete one, and one with no secret.
GoodKeyFile == <<L_key1, L_alg256, L_secret1, L_close>>
BadKeyFile == <<L_key1, L_alg256, L_close>>

\* The parsed command lines (argparse's args) of the model.
ArgSets ==
    [update_dns : BOOLEAN,
     subzone_labels : {None, Some(0), Some(1), Some(3)},
     zone : {None, Some(Z_zone)},
     ttl : {3600},
     server : {None, Some("ns.example.")},
     tsig_key_file : {None, Some(GoodKeyFile), Some(BadKeyFile)},
     output_file : BOOLEAN]

\* ------------------------------------------------------------------- state
VARIABLES
    args,            \* the parsed command line
    nlines,          \* the number of lines of the input file
    input,           \* the lines read from the input file so far
    pc,              \* where main is
    general_server,  \* main's general_server
    keyring,         \* the TSIG keyring loaded, or None
    alg,             \* the TSIG algorithm loaded, or None
    out,             \* the tokens written to the output file
    stderr,          \* the messages the program wrote to stderr
    status,          \* None while running, Some(exit status) once ended
    exc,             \* the uncaught exception that ended the run, or NoExc
    frame,           \* the locals of the running upload_jwt
    outcome,         \* what became of each line read
    net,             \* the name-service lookups made, in order
    calls,           \* the calls of send_update attempted, in order
    wire,            \* the update messages transmitted, in order
    call             \* the function application under examination

vars == <<args, nlines, input, pc, general_server, keyring, alg, out, stderr,
          status, exc, frame, outcome, net, calls, wire, call>>

\* No function is being applied on its own.
NoCall == [fn |-> "", arg |-> <<>>, src |-> <<>>, done |-> FALSE,
           raised |-> FALSE, exc |-> NoExc, ret |-> <<>>]

NoFrame == [jwt |-> <<>>, url |-> <<>>, server |-> None, zone |-> None,
            name |-> None, rdtype |-> <<>>]

\* What became of a line: "skipped" (invalid JSON, reported), "encoded" (no
\* publication requested), "uploading" (upload_jwt running), "returned"
\* (upload_jwt returned) or "raised" (an exception left main).
Outcome(state, e) == [state |-> state, exc |-> e]

Init ==
    /\ args \in ArgSets
    /\ nlines \in 0..MaxLines
    /\ input = <<>>
    /\ pc = "start"
    /\ general_server = None
    /\ keyring = None
    /\ alg = None
    /\ out = <<>>
    /\ stderr = <<>>
    /\ status = None
    /\ exc = NoExc
    /\ frame = NoFrame
    /\ outcome = <<>>
    /\ net = <<>>
    /\ calls = <<>>
    /\ wire = <<>>
    /\ call = NoCall

\* createjwt.py:152-157
ResolveGeneralServer ==
    /\ pc = "start"
    /\ IF args.server # None
       THEN \E o \in GetaddrinfoOutcomes :
              LET a == get_addr_for_name(args.server[1], o)
              IN  /\ general_server' = a
                  /\ net' = Append(net, [op |-> "getaddrinfo", rec |-> 0,
                                         result |-> a])
                  /\ IF a = None
                     THEN /\ stderr' = Append(stderr,
                                 [text |-> "Invalid server name", rec |-> 0])
                          /\ status' = Some(1)
                          /\ pc' = "done"
                     ELSE /\ pc' = "tsig"
                          /\ UNCHANGED <<stderr, status>>
       ELSE /\ pc' = "tsig"
            /\ UNCHANGED <<general_server, net, stderr, status>>
    /\ UNCHANGED <<args, nlines, input, keyring, alg, out, exc, frame, outcome,
                   calls, wire>>
    /\ UNCHANGED call

\* createjwt.py:159-163; an exception of parse_tsig_key_file is not caught
LoadTsigKey ==
    /\ pc = "tsig"
    /\ IF args.tsig_key_file # None
       THEN \E r \in {parse_tsig_key_file(args.tsig_key_file[1])} :
                IF r.raised
                THEN /\ exc' = r.exc
                     /\ status' = Some(1)
                     /\ pc' = "done"
                     /\ UNCHANGED <<keyring, alg>>
                ELSE /\ keyring' = r.keyring
                     /\ alg' = r.alg
                     /\ pc' = "config"
                     /\ UNCHANGED <<exc, status>>
       ELSE /\ keyring' = None
            /\ alg' = None
            /\ pc' = "config"
            /\ UNCHANGED <<exc, status>>
    /\ UNCHANGED <<args, nlines, input, general_server, out, stderr, frame,
                   outcome, net, calls, wire>>
    /\ UNCHANGED call

\* ZoneOptionsConflict without its second case (neither option given).
ZoneOptionsConflict_BothOnly(a) == a.zone # None /\ a.subzone_labels # None

\* createjwt.py:168-169
ZoneOptionsConflict(a) ==
    \/ (a.zone # None /\ a.subzone_labels # None)
    \/ (a.zone = None /\ a.subzone_labels = None)

\* createjwt.py:165-172
CheckConfig ==
    /\ pc = "config"
    /\ IF args.update_dns /\ ZoneOptionsConflict(args)
       THEN /\ stderr' = Append(stderr,
                   [text |-> "Exactly one of --zone or --subzone_labels must be used with --update_dns.",
                    rec |-> 0])
            /\ status' = Some(1)
            /\ pc' = "done"
       ELSE /\ pc' = "loop"
            /\ UNCHANGED <<stderr, status>>
    /\ UNCHANGED <<args, nlines, input, general_server, keyring, alg, out, exc,
                   frame, outcome, net, calls, wire>>
    /\ UNCHANGED call

\* Uncaught with the exception swallowed and the failed step left to run
\* again: a retry.
Uncaught_Retry(e, rec) ==
    /\ pc' = pc
    /\ frame' = frame
    /\ outcome' = outcome
    /\ UNCHANGED <<exc, status>>

\* An exception leaves main while line `rec` is being processed: the
\* interpreter prints the traceback and exits with status 1.
Uncaught(e, rec) ==
    /\ exc' = e
    /\ status' = Some(1)
    /\ pc' = "done"
    /\ frame' = NoFrame
    /\ outcome' = [outcome EXCEPT ![rec] = Outcome("raised", e)]

\* upload_jwt returns to the loop of main, `e` being the exception it handled
\* (NoExc when there was none)
Returns(rec, e) ==
    /\ pc' = "loop"
    /\ frame' = NoFrame
    /\ outcome' = [outcome EXCEPT ![rec] = Outcome("returned", e)]
    /\ UNCHANGED <<exc, status>>

\* upload_jwt_frame with the server taken from the address main resolved
\* before the loop instead of from the command line.
upload_jwt_frame_GeneralServer(jwt, url, a) ==
    [jwt |-> jwt, url |-> url, server |-> general_server, zone |-> a.zone,
     name |-> None, rdtype |-> <<>>]

\* createjwt.py:67 and 186-187, the locals of upload_jwt as it is entered:
\* its parameters are bound afresh from the arguments of the call, server
\* and zone from the command line.
upload_jwt_frame(jwt, url, a) ==
    [jwt |-> jwt, url |-> url, server |-> a.server, zone |-> a.zone,
     name |-> None, rdtype |-> <<>>]

\* createjwt.py:174-188, one iteration of the loop up to the call of
\* upload_jwt: the line is stripped and parsed; invalid JSON is reported and
\* skipped; the claims are encoded, the token is written to the output file
\* when there is one, and with --update_dns upload_jwt is entered with
\* claims['diem_id'].
ReadLine ==
    /\ pc = "loop"
    /\ Len(input) < nlines
    /\ \E raw \in InputLines :
       \E line \in {Strip(raw)} :
       \E parsed \in {json_loads(line)} :
       \E claims \in {parsed.value} :
       \E jwt \in {jwt_encode(claims, None)}, url \in {DictGet(claims, S_diem_id)} :
         LET rec == Len(input) + 1
         IN  /\ input' = Append(input, raw)
             /\ IF ~parsed.ok
                THEN /\ stderr' = Append(stderr,
                            [text |-> "Invalid JSON", rec |-> rec])
                     /\ outcome' = Append(outcome, Outcome("skipped", NoExc))
                     /\ UNCHANGED <<out, pc, frame, exc, status>>
                ELSE /\ out' = IF args.output_file THEN Append(out, jwt) ELSE out
                     /\ stderr' = stderr
                     /\ IF ~args.update_dns
                        THEN /\ outcome' = Append(outcome, Outcome("encoded", NoExc))
                             /\ UNCHANGED <<pc, frame, exc, status>>
                        ELSE IF url = None
                        THEN /\ exc' = Exc("KeyError", "diem_id", <<>>)
                             /\ status' = Some(1)
                             /\ pc' = "done"
                             /\ frame' = NoFrame
                             /\ outcome' = Append(outcome,
                                    Outcome("raised", Exc("KeyError", "diem_id", <<>>)))
                        ELSE /\ frame' = upload_jwt_frame(jwt, url[1], args)
                             /\ pc' = "validate"
                             /\ outcome' = Append(outcome, Outcome("uploading", NoExc))
                             /\ UNCHANGED <<exc, status>>
    /\ UNCHANGED <<args, nlines, general_server, keyring, alg, net, calls, wire>>
    /\ UNCHANGED call

\* createjwt.py:174, the input is exhausted: main returns
EndOfInput ==
    /\ pc = "loop"
    /\ Len(input) = nlines
    /\ pc' = "done"
    /\ status' = Some(0)
    /\ UNCHANGED <<args, nlines, input, general_server, keyring, alg, out,
                   stderr, exc, frame, outcome, net, calls, wire>>
    /\ UNCHANGED call

\* createjwt.py:68-85
UploadValidate ==
    /\ pc = "validate"
    /\ \E t \in {upload_jwt_target(frame.url, frame.zone, args.subzone_labels)} :
       LET rec == Len(input)
       IN  IF t.raised
           THEN Uncaught(t.exc, rec)
           ELSE /\ frame' = [frame EXCEPT !.name = t.name, !.zone = t.zone,
                                          !.rdtype = t.rdtype]
                /\ pc' = IF frame.server = None THEN "mname" ELSE "addr"
                /\ UNCHANGED <<exc, status, outcome>>
    /\ UNCHANGED <<args, nlines, input, general_server, keyring, alg, out,
                   stderr, net, calls, wire>>
    /\ UNCHANGED call

\* createjwt.py:87-90
UploadMname ==
    /\ pc = "mname"
    /\ \E o \in SoaOutcomes :
         LET rec == Len(input)
             server == get_mname_for_zone(frame.zone[1], o)
         IN  /\ net' = Append(net, [op |-> "SOA", rec |-> rec, result |-> server])
             /\ IF server = None
                THEN Uncaught(Exc("ValueError", "No MNAME for zone", frame.zone), rec)
                ELSE /\ frame' = [frame EXCEPT !.server = server]
                     /\ pc' = "addr"
                     /\ UNCHANGED <<exc, status, outcome>>
    /\ UNCHANGED <<args, nlines, input, general_server, keyring, alg, out,
                   stderr, calls, wire>>
    /\ UNCHANGED call

\* createjwt.py:91
UploadAddr ==
    /\ pc = "addr"
    /\ \E o \in GetaddrinfoOutcomes :
         LET server == get_addr_for_name(frame.server[1], o)
         IN  /\ net' = Append(net, [op |-> "getaddrinfo", rec |-> Len(input),
                                    result |-> server])
             /\ frame' = [frame EXCEPT !.server = server]
             /\ pc' = "send"
    /\ UNCHANGED <<args, nlines, input, general_server, keyring, alg, out,
                   stderr, status, exc, outcome, calls, wire>>
    /\ UNCHANGED call

\* createjwt.py:93-106: the token is chunked, the rdata built and
\* send_update called; of the exceptions of the call only an AssertionError
\* is handled (reported, and upload_jwt returns).
UploadSend ==
    /\ pc = "send"
    /\ LET rec == Len(input)
           contents == jwt_rdata(jwt_parts(frame.jwt))
       IN  /\ calls' = Append(calls,
                  [rec |-> rec, zone |-> frame.zone[1], name |-> frame.name[1],
                   ttl |-> args.ttl, rdtype |-> frame.rdtype,
                   contents |-> contents, server |-> frame.server])
           /\ IF ~CallBinds(Len(SEND_UPDATE_REQUIRED), UPLOAD_CALL_KEYWORDS)
              THEN /\ Uncaught(Exc("TypeError", "unexpected keyword argument", <<>>), rec)
                   /\ UNCHANGED <<wire, stderr>>
              ELSE \E reply \in Replies :
                     LET r == send_update(frame.zone[1], frame.name[1], args.ttl,
                                          frame.rdtype, contents, frame.server,
                                          keyring, alg, reply)
                     IN  /\ wire' = IF r.sent
                                    THEN Append(wire, [rec |-> rec, msg |-> r.msg,
                                                       server |-> frame.server,
                                                       reply |-> reply])
                                    ELSE wire
                         /\ IF ~r.raised
                            THEN Returns(rec, NoExc) /\ stderr' = stderr
                            ELSE IF Handled(r.exc)
                            THEN /\ Returns(rec, r.exc)
                                 /\ stderr' = Append(stderr,
                                        [text |-> "Error", rec |-> rec])
                            ELSE Uncaught(r.exc, rec) /\ stderr' = stderr
    /\ UNCHANGED <<args, nlines, input, general_server, keyring, alg, out, net>>
    /\ UNCHANGED call

Next ==
    \/ ResolveGeneralServer
    \/ LoadTsigKey
    \/ CheckConfig
    \/ ReadLine
    \/ EndOfInput
    \/ UploadValidate
    \/ UploadMname
    \/ UploadAddr
    \/ UploadSend

Spec == Init /\ [][Next]_vars

\* ------------------------------------------------- dns_update.py as a program
\* The command lines of dns_update.py: zone, name, type, contents and server
\* are required; the contents are '"abc"'.
DnsUpdateArgSets ==
    [zone : {Z_zone, root},
     name : {<< <<97>>, <<122>>, <<>> >>, Z_zone},
     ttl : {3600, 60},
     type : {S_TXT},
     contents : {<<34,97,98,99,34>>},
     server : {Some("ns.example.")},
     tsig_key_file : {None, Some(GoodKeyFile), Some(BadKeyFile)},
     update_dns : {FALSE},
     subzone_labels : {None},
     output_file : {FALSE}]

InitDnsUpdate ==
    /\ args \in DnsUpdateArgSets
    /\ nlines = 0
    /\ input = <<>>
    /\ pc = "u_start"
    /\ general_server = None
    /\ keyring = None
    /\ alg = None
    /\ out = <<>>
    /\ stderr = <<>>
    /\ status = None
    /\ exc = NoExc
    /\ frame = NoFrame
    /\ outcome = <<>>
    /\ net = <<>>
    /\ calls = <<>>
    /\ wire = <<>>
    /\ call = NoCall

\* dns_update.py:65-66; gaierror is not caught
DnsUpdateResolve ==
    /\ pc = "u_start"
    /\ \E o \in GetaddrinfoOutcomes :
         /\ net' = Append(net, [op |-> "getaddrinfo", rec |-> 0,
                                result |-> IF o.ok THEN Some(o.addrs[1]) ELSE None])
         /\ IF o.ok
            THEN /\ general_server' = Some(o.addrs[1])
                 /\ pc' = "u_tsig"
                 /\ UNCHANGED <<exc, status>>
            ELSE /\ exc' = Exc("gaierror", "", <<>>)
                 /\ status' = Some(1)
                 /\ pc' = "done"
                 /\ UNCHANGED general_server
    /\ UNCHANGED <<args, nlines, input, keyring, alg, out, stderr, frame,
                   outcome, calls, wire>>
    /\ UNCHANGED call

\* dns_update.py:68-72
DnsUpdateLoadKey ==
    /\ pc = "u_tsig"
    /\ IF args.tsig_key_file # None
       THEN \E r \in {parse_tsig_key_file(args.tsig_key_file[1])} :
                IF r.raised
                THEN /\ exc' = r.exc
                     /\ status' = Some(1)
                     /\ pc' = "done"
                     /\ UNCHANGED <<keyring, alg>>
                ELSE /\ keyring' = r.keyring
                     /\ alg' = r.alg
                     /\ pc' = "u_send"
                     /\ UNCHANGED <<exc, status>>
       ELSE /\ keyring' = None
            /\ alg' = None
            /\ pc' = "u_send"
            /\ UNCHANGED <<exc, status>>
    /\ UNCHANGED <<args, nlines, input, general_server, out, stderr, frame,
                   outcome, net, calls, wire>>
    /\ UNCHANGED call

\* The keywords of the call of send_update at dns_update.py:74-75, which
\* passes six positional arguments.
MAIN_CALL_KEYWORDS == {"keyring", "alg"}

\* dns_update.py:74-75; an exception of send_update is not caught
DnsUpdateSend ==
    /\ pc = "u_send"
    /\ calls' = Append(calls,
           [rec |-> 0, zone |-> args.zone, name |-> args.name, ttl |-> args.ttl,
            rdtype |-> args.type, contents |-> args.contents,
            server |-> general_server])
    /\ pc' = "done"
    /\ IF ~CallBinds(Len(SEND_UPDATE_REQUIRED), MAIN_CALL_KEYWORDS)
       THEN /\ exc' = Exc("TypeError", "unexpected keyword argument", <<>>)
            /\ status' = Some(1)
            /\ wire' = wire
       ELSE \E reply \in Replies :
              LET r == send_update(args.zone, args.name, args.ttl, args.type,
                                   args.contents, general_server, keyring, alg,
                                   reply)
              IN  /\ wire' = IF r.sent
                             THEN Append(wire, [rec |-> 0, msg |-> r.msg,
                                                server |-> general_server,
                                                reply |-> reply])
                             ELSE wire
                  /\ exc' = r.exc
                  /\ status' = IF r.raised THEN Some(1) ELSE Some(0)
    /\ UNCHANGED <<args, nlines, input, general_server, keyring, alg, out,
                   stderr, frame, outcome, net>>
    /\ UNCHANGED call

NextDnsUpdate == DnsUpdateResolve \/ DnsUpdateLoadKey \/ DnsUpdateSend

SpecDnsUpdate == InitDnsUpdate /\ [][NextDnsUpdate]_vars

\* Of send_update as dns_update.py runs it: it returns normally exactly when
\* the response says NOERROR, and for any other response code it raises
\* UpdateError naming that code.
SendUpdateRaisesUnlessNoError ==
    (pc = "done" /\ calls # <<>>) =>
        /\ Len(wire) = 1
        /\ (status = Some(0)) <=>
              (wire[1].reply.kind = "response" /\ wire[1].reply.rcode = "NOERROR")
        /\ (wire[1].reply.kind = "response" /\ wire[1].reply.rcode # "NOERROR") =>
              exc = Exc("UpdateError", "updated failed with rcode",
                        <<wire[1].reply.rcode>>)

\* --------------------------------------------------------------- importers
\* digitaldb/importdb_asn.py, digitaldb/importdb_ip.py, locationdb/importdb.py,
\* locationdb/importdb_unesco.py, locationdb/importdb_uscounties.py: how each
\* makes the diem_id of a claim record.

\* '_diem'
DIEM_PREFIX == <<95,100,105,101,109>>
\* 'dns'
DIEM_PROTO == S_dns
\* '?CLASS=IN;TYPE=TXT'
S_class_type == <<63,67,76,65,83,83,61,73,78,59,84,89,80,69,61,84,88,84>>

\* str(n) for a natural number n
RECURSIVE IntToStr(_)
IntToStr(n) ==
    IF n < 10 THEN <<48 + n>> ELSE IntToStr(n \div 10) \o <<48 + (n % 10)>>

\* int(s, base) for a numeral s with no sign; acc is the value read so far
RECURSIVE ParseInt(_, _, _)
ParseInt(s, base, acc) ==
    IF s = <<>> THEN acc
    ELSE ParseInt(Tail(s), base, acc * base + HexVal(Head(s)))

\* s[::-1]
Reversed(s) == [i \in 1..Len(s) |-> s[Len(s) + 1 - i]]

\* ipaddress.ip_address(text) for the text of a valid address: an IPv4
\* address is its four octets; an IPv6 address is its eight 16-bit groups,
\* '::' standing for the groups that are zero.
Groups(t) == IF t = <<>> THEN <<>> ELSE Split(t, 58)
ip_address(text) ==
    IF Find(text, 58) = 0
    THEN [version |-> 4,
          words |-> [i \in 1..4 |-> ParseInt(Split(text, 46)[i], 10, 0)]]
    ELSE LET HasGap(i) == text[i] = 58 /\ text[i+1] = 58
             gapped == \E i \in 1..(Len(text)-1) : HasGap(i)
             g == CHOOSE i \in 1..(Len(text)-1) : HasGap(i)
             hi == IF gapped THEN Groups(SubSeq(text, 1, g - 1)) ELSE Groups(text)
             lo == IF gapped THEN Groups(SubSeq(text, g + 2, Len(text))) ELSE <<>>
             texts == hi \o [i \in 1..(8 - Len(hi) - Len(lo)) |-> <<48>>] \o lo
         IN  [version |-> 6,
              words |-> [i \in 1..8 |-> ParseInt(texts[i], 16, 0)]]

\* ipaddr.reverse_pointer as the list of its labels: for IPv4 the octets in
\* decimal, last octet first, then 'in-addr', 'arpa'; for IPv6 the 32 hex
\* digits of the exploded form, last digit first, then 'ip6', 'arpa'.
reverse_pointer(ipaddr) ==
    IF ipaddr.version = 4
    THEN Reversed([i \in 1..4 |-> IntToStr(ipaddr.words[i])])
         \o << <<105,110,45,97,100,100,114>>, <<97,114,112,97>> >>
    ELSE Reversed([i \in 1..32 |->
                     <<HexChar((ipaddr.words[((i - 1) \div 4) + 1]
                                \div (IF (i - 1) % 4 = 0 THEN 4096
                                      ELSE IF (i - 1) % 4 = 1 THEN 256
                                      ELSE IF (i - 1) % 4 = 2 THEN 16 ELSE 1))
                               % 16)>>])
         \o << <<105,112,54>>, <<97,114,112,97>> >>

\* 2^n
RECURSIVE Pow2(_)
Pow2(n) == IF n = 0 THEN 1 ELSE 2 * Pow2(n - 1)

\* importdb_ip.py:14-29.  ptr_parts is ptr_name.split('.').  The mask
\* ~(0xff & (0xff << rem_bits)) has the low rem_bits bits set and none of
\* the other bits below 2^8, so for a label below 2^8 `mask & label` is the
\* label modulo 2^rem_bits.
StripSuperfluousLabels(prefix, prefixlen, family, ptr_parts, total_bits, label_bits, int_repr) ==
    LET host_bits == total_bits - prefixlen
        host_labels == host_bits \div label_bits
        rem_bits == host_bits % label_bits
        Invalid == [raised |-> TRUE, value |-> <<>>,
                    exc |-> Exc("ValueError", "Invalid prefix", <<prefix>>)]
    IN  IF \E k \in 1..host_labels : ptr_parts[k] # <<48>>
        THEN Invalid
        ELSE IF rem_bits # 0
                /\ ParseInt(ptr_parts[host_labels + 1], int_repr, 0)
                     % Pow2(rem_bits) # 0
        THEN Invalid
        ELSE [raised |-> FALSE, exc |-> NoExc,
              value |-> Join(<<46>>, SubSeq(ptr_parts, host_labels + 1,
                                            Len(ptr_parts) - 2))
                        \o <<46>> \o IntToStr(prefixlen) \o <<46>> \o family]

\* importdb_ip.py:31-38
strip_superfluous_labels(prefix, ipaddr, prefixlen) ==
    IF ipaddr.version = 4
    THEN StripSuperfluousLabels(prefix, prefixlen, <<105,112>>,
                                reverse_pointer(ipaddr), 32, 8, 10)
    ELSE StripSuperfluousLabels(prefix, prefixlen, <<105,112,54>>,
                                reverse_pointer(ipaddr), 128, 4, 16)

\* importdb_ip.py:40-43
prefix_to_id(prefix) ==
    LET parts == Split(prefix, 47)
    IN  strip_superfluous_labels(prefix, ip_address(parts[1]),
                                 ParseInt(parts[2], 10, 0))

\* importdb_asn.py:14-15
asn_to_id(asn) == asn \o <<46,97,115,110>>

\* create_diem_id of importdb_asn.py:17-18, importdb_ip.py:45-46 and
\* importdb_unesco.py:69-70
create_diem_id(objid, suffix) ==
    DIEM_PROTO \o <<58>> \o DIEM_PREFIX \o <<46>> \o objid \o <<46>> \o suffix
    \o S_class_type

\* create_diem_id of importdb_uscounties.py:37-39; code is
\* obj['coty_code'][0], written with '%d' % int(code)
create_diem_id_uscounties(code, suffix) ==
    DIEM_PROTO \o <<58>> \o DIEM_PREFIX \o <<46>>
    \o IntToStr(ParseInt(code, 10, 0)) \o <<46>> \o suffix \o S_class_type

\* create_diem_id of locationdb/importdb.py:67-68; id is row[0], written
\* with '%d' % int(id)
create_diem_id_locationdb(id, suffix) ==
    DIEM_PROTO \o <<58,47,47>> \o DIEM_PREFIX \o <<46>>
    \o IntToStr(ParseInt(id, 10, 0)) \o <<46>> \o suffix

\* importdb_unesco.py:84-85: the last segment of the path of the link
unesco_objid(link) ==
    LET segs == Split(urlparse(link).path, 47) IN segs[Len(segs)]

\* claims['diem_id'] as create_claims of importer `imp` makes it from the
\* key of a source row; raised when create_claims raises (importdb_ip.py:49,
\* an invalid prefix)
diem_id_of(imp, key, suffix) ==
    IF imp = "asn"
    THEN [raised |-> FALSE, value |-> create_diem_id(asn_to_id(key), suffix)]
    ELSE IF imp = "ip"
    THEN LET r == prefix_to_id(key)
         IN  IF r.raised THEN [raised |-> TRUE, value |-> <<>>]
             ELSE [raised |-> FALSE, value |-> create_diem_id(r.value, suffix)]
    ELSE IF imp = "unesco"
    THEN [raised |-> FALSE, value |-> create_diem_id(unesco_objid(key), suffix)]
    ELSE IF imp = "uscounties"
    THEN [raised |-> FALSE, value |-> create_diem_id_uscounties(key, suffix)]
    ELSE [raised |-> FALSE, value |-> create_diem_id_locationdb(key, suffix)]

\* --------------------------------------------- functions applied on their own
\* The program's functions are also examined one application at a time:
\* `call` holds the function, its argument and, once applied, what it
\* returned or that it raised.  The main program does not run meanwhile.
MainAtRest ==
    /\ args = [update_dns |-> FALSE, subzone_labels |-> None, zone |-> None,
               ttl |-> 3600, server |-> None, tsig_key_file |-> None,
               output_file |-> FALSE]
    /\ nlines = 0
    /\ input = <<>>
    /\ pc = "rest"
    /\ general_server = None
    /\ keyring = None
    /\ alg = None
    /\ out = <<>>
    /\ stderr = <<>>
    /\ status = None
    /\ exc = NoExc
    /\ frame = NoFrame
    /\ outcome = <<>>
    /\ net = <<>>
    /\ calls = <<>>
    /\ wire = <<>>

mainVars == <<args, nlines, input, pc, general_server, keyring, alg, out,
              stderr, status, exc, frame, outcome, net, calls, wire>>

\* The application of fn to arg, not made yet.  src is empty unless arg is
\* what an earlier application returned: it then holds that application's
\* argument.
Pending(fn, arg) ==
    [fn |-> fn, arg |-> arg, src |-> <<>>, done |-> FALSE, raised |-> FALSE,
     exc |-> NoExc, ret |-> <<>>]

\* A text of n printable characters; k varies the pattern.
Text(n, k) == [i \in 1..n |-> 33 + ((i * k) % 94)]

\* The tokens given to the chunker: every length from the empty text to
\* MaxTokenLen, in two patterns.
ChunkerInputs == { Text(n, k) : n \in 0..MaxTokenLen, k \in {1, 7} }

InitChunker ==
    /\ MainAtRest
    /\ \E s \in ChunkerInputs : call = Pending("jwt_parts", s)

\* createjwt.py:93-99 applied to call.arg
ApplyChunker ==
    /\ call.fn = "jwt_parts"
    /\ ~call.done
    /\ call' = [call EXCEPT !.done = TRUE, !.ret = jwt_parts(call.arg)]
    /\ UNCHANGED mainVars

NextChunker == ApplyChunker

SpecChunker == InitChunker /\ [][NextChunker]_vars

\* ---------------------------------------------------- the token functions
\* Keys 'a', 'ab', 'diem_id'; values '', 'b', 'bc', 'q"\', e-acute and
\* newline, U+1F600, and a target URI.
JwtValues ==
    { <<>>, <<98>>, <<98,99>>, <<113,34,92>>, <<233,10>>, <<128512>>, U_good }

\* The claim maps given to jwt_encode: the empty map, the maps of one pair,
\* and maps of two pairs.
JwtClaims ==
    { <<>> }
    \cup { << <<k, v>> >> :
               k \in { <<97>>, <<97,98>>, S_diem_id }, v \in JwtValues }
    \cup { << <<S_diem_id, U_good>>, <<k, v>> >> : k \in {<<97>>}, v \in JwtValues }

\* The headers given to jwt_encode: none (the default), {'alg': 'none'}, {},
\* {'alg': 'HS256', 'typ': 'JWT'}.
JwtHeaders ==
    { None, Some(UNSECURED_HEADER), Some(<<>>),
      Some(<< <<S_alg, <<72,83,50,53,54>> >>,
              << <<116,121,112>>, <<74,87,84>> >> >>) }

\* 'eyJhIjoiYiJ9', the encoding of '{"a":"b"}'
Seg_ab == <<101,121,74,104,73,106,111,105,89,105,74,57>>

\* The segments of the tokens given to jwt_decode on its own: every prefix
\* of Seg_ab, and 'e30' (the encoding of '{}'), 'e30=', 'e3!0', 'e30ab'.
JwtSegments ==
    { SubSeq(Seg_ab, 1, n) : n \in 0..Len(Seg_ab) }
    \cup { <<101,51,48>>, <<101,51,48,61>>, <<101,51,33,48>>, <<101,51,48,97,98>> }

\* The tokens given to jwt_decode on its own: two segments and a '.', a
\* segment with no '.', and tokens with a second '.'.
JwtTokens ==
    { h \o <<46>> \o c : h \in JwtSegments, c \in JwtSegments }
    \cup JwtSegments
    \cup { h \o <<46>> \o h \o <<46>> \o h : h \in { <<101,51,48>>, <<101,51,48,97,98>> } }

InitJwt ==
    /\ MainAtRest
    /\ \/ \E c \in JwtClaims, h \in JwtHeaders :
            call = Pending("jwt_encode", [claims |-> c, hdr |-> h])
       \/ \E t \in JwtTokens : call = Pending("jwt_decode", t)

\* createjwt.py:36-43 applied to call.arg; the token is then given to
\* jwt_decode
ApplyJwtEncode ==
    /\ call.fn = "jwt_encode"
    /\ ~call.done
    /\ call' = [Pending("jwt_decode", jwt_encode(call.arg.claims, call.arg.hdr))
                  EXCEPT !.src = <<call.arg>>]
    /\ UNCHANGED mainVars

\* createjwt.py:45-51 applied to call.arg
ApplyJwtDecode ==
    /\ call.fn = "jwt_decode"
    /\ ~call.done
    /\ \E r \in {jwt_decode(call.arg)} :
           call' = [call EXCEPT !.done = TRUE, !.raised = r.raised,
                                !.exc = r.exc,
                                !.ret = [hdr |-> r.hdr, claims |-> r.claims]]
    /\ UNCHANGED mainVars

NextJwt == ApplyJwtEncode \/ ApplyJwtDecode

SpecJwt == InitJwt /\ [][NextJwt]_vars

\* ------------------------------------------------------ prefix_to_id alone
\* The addresses of the prefixes, IPv4: '0.0.0.0',
\* '10.0.0.0',
\* '10.128.0.0',
\* '192.168.1.0',
\* '10.1.2.3',
\* '255.255.255.255',
\* '128.0.0.0'
PrefixNets ==
    {
      [text |-> <<48,46,48,46,48,46,48>>,
       version |-> 4, words |-> <<0,0,0,0>>],
      [text |-> <<49,48,46,48,46,48,46,48>>,
       version |-> 4, words |-> <<10,0,0,0>>],
      [text |-> <<49,48,46,49,50,56,46,48,46,48>>,
       version |-> 4, words |-> <<10,128,0,0>>],
      [text |-> <<49,57,50,46,49,54,56,46,49,46,48>>,
       version |-> 4, words |-> <<192,168,1,0>>],
      [text |-> <<49,48,46,49,46,50,46,51>>,
       version |-> 4, words |-> <<10,1,2,3>>],
      [text |-> <<50,53,53,46,50,53,53,46,50,53,53,46,50,53,53>>,
       version |-> 4, words |-> <<255,255,255,255>>],
      [text |-> <<49,50,56,46,48,46,48,46,48>>,
       version |-> 4, words |-> <<128,0,0,0>>],
\* and IPv6: '::',
\* '2001:db8::',
\* 'fe80::1',
\* '2001:db8:8000::',
\* '8000::'
      [text |-> <<58,58>>,
       version |-> 6, words |-> <<0,0,0,0,0,0,0,0>>],
      [text |-> <<50,48,48,49,58,100,98,56,58,58>>,
       version |-> 6, words |-> <<8193,3512,0,0,0,0,0,0>>],
      [text |-> <<102,101,56,48,58,58,49>>,
       version |-> 6, words |-> <<65152,0,0,0,0,0,0,1>>],
      [text |-> <<50,48,48,49,58,100,98,56,58,56,48,48,48,58,58>>,
       version |-> 6, words |-> <<8193,3512,32768,0,0,0,0,0>>],
      [text |-> <<56,48,48,48,58,58>>,
       version |-> 6, words |-> <<32768,0,0,0,0,0,0,0>>]
    }

\* The prefixes net/len given to prefix_to_id: every length from 0 to the
\* number of bits of the address (importdb_ip.py:35 and 38)
PrefixInputs ==
    UNION { { [net |-> n, prefixlen |-> l] :
                l \in 0..(IF n.version = 4 THEN 32 ELSE 128) } :
            n \in PrefixNets }

\* src holds the address as numbers and the length, arg the text net/len
InitPrefix ==
    /\ MainAtRest
    /\ \E i \in PrefixInputs :
         call = [Pending("prefix_to_id",
                         i.net.text \o <<47>> \o IntToStr(i.prefixlen))
                 EXCEPT !.src = [version |-> i.net.version,
                                 words |-> i.net.words,
                                 prefixlen |-> i.prefixlen]]

\* importdb_ip.py:40-43 applied to call.arg
ApplyPrefixToId ==
    /\ call.fn = "prefix_to_id"
    /\ ~call.done
    /\ \E r \in {prefix_to_id(call.arg)} :
           call' = [call EXCEPT !.done = TRUE, !.raised = r.raised,
                                !.exc = r.exc, !.ret = r.value]
    /\ UNCHANGED mainVars

NextPrefix == ApplyPrefixToId

SpecPrefix == InitPrefix /\ [][NextPrefix]_vars

\* ----------------------------------------------------- the key loader alone
\* The lines key files are made of: those of GoodKeyFile and
KeyLines ==
    { L_key1, L_alg256, L_secret1, L_close,
      \* another key name: 'key "k2" {'
      <<107,101,121,32,34,107,50,34,32,123,10>>,
      \* two key names on one line: 'key "k1"; key "k2";'
      <<107,101,121,32,34,107,49,34,59,32,107,101,121,32,34,107,50,34,59,
        10>>,
      \* two secrets on one line: 'secret "YQ=="; secret "Yg==";'
      <<115,101,99,114,101,116,32,34,89,81,61,61,34,59,32,115,101,99,114,
        101,116,32,34,89,103,61,61,34,59,10>>,
      \* two algorithms on one line: 'algorithm hmac-md5; algorithm hmac-sha512;'
      <<97,108,103,111,114,105,116,104,109,32,104,109,97,99,45,109,100,53,
        59,32,97,108,103,111,114,105,116,104,109,32,104,109,97,99,45,115,
        104,97,53,49,50,59,10>>,
      \* a whole key on one line: 'key "k3" { algorithm hmac-sha1; secret "Yw=="; };'
      <<107,101,121,32,34,107,51,34,32,123,32,97,108,103,111,114,105,116,
        104,109,32,104,109,97,99,45,115,104,97,49,59,32,115,101,99,114,101,
        116,32,34,89,119,61,61,34,59,32,125,59,10>> }

\* The key files of at most MaxKeyLines lines
KeyFiles ==
    UNION { [1..n -> KeyLines] : n \in 0..MaxKeyLines }

InitTsig ==
    /\ MainAtRest
    /\ \E f \in KeyFiles : call = Pending("parse_tsig_key_file", f)

\* dns_update.py:22-38 applied to call.arg
ApplyParseTsigKeyFile ==
    /\ call.fn = "parse_tsig_key_file"
    /\ ~call.done
    /\ \E r \in {parse_tsig_key_file(call.arg)} :
           call' = [call EXCEPT !.done = TRUE, !.raised = r.raised,
                                !.exc = r.exc,
                                !.ret = [keyring |-> r.keyring, alg |-> r.alg]]
    /\ UNCHANGED mainVars

NextTsig == ApplyParseTsigKeyFile

SpecTsig == InitTsig /\ [][NextTsig]_vars

\* ------------------------------------------- from importer to target resolver
\* The suffixes given to the importers: 'example.com', 'z', 'diem.example.org.'

\* Rows of the importers' sources, by the column the diem_id is made from:
\* AS numbers; prefixes ('10.0.0.1/8' is invalid); links of UNESCO sites;
\* county codes; Ramsar site numbers.
ImporterRows ==
    { [importer |-> "asn", key |-> k] : k \in { <<49>>, <<54,52,53,49,50>>, <<52,50,48,48,48,48,48,48,48,48>> } }
    \cup { [importer |-> "ip", key |-> k] :
             k \in { <<49,48,46,48,46,48,46,48,47,56>>, <<49,57,50,46,49,54,56,46,49,46,48,47,50,52>>, <<49,48,46,48,46,48,46,49,47,56>>,
                     <<50,48,48,49,58,100,98,56,58,58,47,51,50>> } }
    \cup { [importer |-> "unesco", key |-> k] :
             k \in { <<104,116,116,112,115,58,47,47,119,104,99,46,117,110,101,115,99,111,46,111,114,103,47,101,110,47,108,105,115,116,47,50,48,56>>,
                     <<104,116,116,112,115,58,47,47,119,104,99,46,117,110,101,115,99,111,46,111,114,103,47,101,110,47,108,105,115,116,47,49>> } }
    \cup { [importer |-> "uscounties", key |-> k] : k \in { <<49,54,48,49,55>>, <<48,49,48,48,49>> } }
    \cup { [importer |-> "locationdb", key |-> k] : k \in { <<49>>, <<50,50,56,56>> } }

InitImporters ==
    /\ MainAtRest
    \* the suffixes 'example.com', 'z' and 'diem.example.org.'
    /\ \E r \in ImporterRows,
          sfx \in { <<101,120,97,109,112,108,101,46,99,111,109>>, <<122>>,
                    <<100,105,101,109,46,101,120,97,109,112,108,101,46,111,
                      114,103,46>> } :
          call = Pending("create_claims",
                         [importer |-> r.importer, key |-> r.key, suffix |-> sfx])

\* create_claims of the importer, up to claims['diem_id']; the diem_id is
\* then given to upload_jwt, as createjwt.py:186-187 does with a record read
ApplyCreateClaims ==
    /\ call.fn = "create_claims"
    /\ ~call.done
    /\ \E d \in {diem_id_of(call.arg.importer, call.arg.key, call.arg.suffix)} :
           call' = IF d.raised
                   THEN [call EXCEPT !.done = TRUE, !.raised = TRUE,
                                     !.exc = Exc("ValueError", "Invalid prefix",
                                                 <<call.arg.key>>)]
                   ELSE [Pending("upload_jwt", d.value)
                           EXCEPT !.src = <<call.arg>>]
    /\ UNCHANGED mainVars

\* createjwt.py:68-85 applied to call.arg, with --subzone_labels n
ApplyUploadTarget ==
    /\ call.fn = "upload_jwt"
    /\ ~call.done
    /\ \E n \in {0, 1} :
       \E t \in {upload_jwt_target(call.arg, None, Some(n))} :
             call' = [call EXCEPT !.done = TRUE, !.raised = t.raised,
                                  !.exc = t.exc,
                                  !.ret = [name |-> t.name, zone |-> t.zone,
                                           rdtype |-> t.rdtype]]
    /\ UNCHANGED mainVars

NextImporters == ApplyCreateClaims \/ ApplyUploadTarget

SpecImporters == InitImporters /\ [][NextImporters]_vars

\* ======================================================= properties
\* The vocabulary of the properties below.

\* The run ended during startup, before the loop over the input.
FatalAtStartup == pc = "done" /\ status = Some(1) /\ input = <<>>

\* Line i has been dealt with: main has moved past it, or ended on it.
Finished(i) == outcome[i].state \in {"skipped", "encoded", "returned", "raised"}

\* Line i is a claim record with a diem_id, and update_dns is set: upload_jwt
\* is entered for it.
Uploads(i) ==
    /\ args.update_dns
    /\ json_loads(Strip(input[i])).ok
    /\ DictGet(json_loads(Strip(input[i])).value, S_diem_id) # None

\* The diem_id of line i.
UrlOf(i) == DictGet(json_loads(Strip(input[i])).value, S_diem_id)[1]

\* upload_jwt has gone through its checks of the target of line i.
Validated(i) ==
    /\ Uploads(i)
    /\ \/ Finished(i)
       \/ (i = Len(input) /\ pc \in {"mname", "addr", "send"})

\* The text of a URI before its first ':' (empty when it has none), as
\* written.
RawScheme(url) ==
    IF Find(url, 58) = 0 THEN <<>> ELSE SubSeq(url, 1, Find(url, 58) - 1)

\* The text of a URI between its first '?' and its end or first '#'.
RawQuery(url) ==
    LET q == IF Find(url, 63) = 0 THEN <<>>
             ELSE SubSeq(url, Find(url, 63) + 1, Len(url))
    IN  IF Find(q, 35) = 0 THEN q ELSE SubSeq(q, 1, Find(q, 35) - 1)

\* The text of a URI between its first ':' and its first '?'.
RawOwner(url) ==
    LET r == SubSeq(url, Find(url, 58) + 1, Len(url))
    IN  IF Find(r, 63) = 0 THEN r ELSE SubSeq(r, 1, Find(r, 63) - 1)

\* The query names CLASS=IN and TYPE=TXT among its ';'-separated pairs.
HasClassInTypeTxt(url) ==
    LET parts == Split(RawQuery(url), 59)
    IN  /\ \E k \in 1..Len(parts) : parts[k] = S_CLASS \o <<61>> \o S_IN
        /\ \E k \in 1..Len(parts) : parts[k] = S_TYPE \o <<61>> \o S_TXT

\* The labels of a dotted owner name (with no empty label), root included.
OwnerLabels(text) ==
    IF text # <<>> /\ text[Len(text)] = 46 THEN Split(text, 46)
    ELSE Split(text, 46) \o << <<>> >>

\* The owner is the zone or lies below it: the zone's labels end the
\* owner's, letter case aside.
UnderZone(owner, zone) ==
    /\ Len(zone) <= Len(owner)
    /\ [k \in 1..Len(zone) |-> Lower(owner[Len(owner) - Len(zone) + k])]
         = [k \in 1..Len(zone) |-> Lower(zone[k])]

\* The program wrote a message about line i to stderr.
Reported(i) == \E k \in 1..Len(stderr) : stderr[k].rec = i

\* A lookup or a call made for line i.
LookedUp(i) == \E k \in 1..Len(net) : net[k].rec = i
Called(i) == \E k \in 1..Len(calls) : calls[k].rec = i
Transmitted(i) == \E k \in 1..Len(wire) : wire[k].rec = i

\* The messages of the failures of the publication stages.
StageFailures ==
    {"Incorrect scheme", "Incorrect class/type", "Name out of zone",
     "No MNAME for zone", "dns.query.tcp", "updated failed with rcode"}

\* C1: with publication requested, a failure of a publication stage for one
\* record (invalid target, failed resolution, transport failure, non-success
\* response code) is reported and does not end the loop: upload_jwt returns
\* to the loop, which goes on with the next line.
C1_FailureIsolated ==
    \A i \in 1..Len(outcome) :
        (args.update_dns /\ outcome[i].exc.msg \in StageFailures) =>
            (outcome[i].state = "returned" /\ Reported(i))

\* The server address was resolved for line i.
ServerResolved(i) ==
    \E k \in 1..Len(net) :
        net[k].rec = i /\ net[k].op = "getaddrinfo" /\ net[k].result # None

\* The diem_id of line i is a valid target: scheme dns, CLASS=IN and
\* TYPE=TXT, and an owner under the zone when the zone is given.
ValidTarget(i) ==
    /\ RawScheme(UrlOf(i)) = S_dns
    /\ HasClassInTypeTxt(UrlOf(i))
    /\ args.zone # None =>
          UnderZone(OwnerLabels(RawOwner(UrlOf(i))), args.zone[1])

\* C2: with publication requested, a line that is valid JSON and whose
\* diem_id is a valid target with a resolvable server reaches the update
\* transmitter: once upload_jwt is through with it, an update message has
\* been transmitted for it.
C2_ValidRecordTransmitted ==
    \A i \in 1..Len(outcome) :
        (Uploads(i) /\ Finished(i) /\ ValidTarget(i) /\ ServerResolved(i))
            => Transmitted(i)

\* The reply to the update of line i said NOERROR.
NoErrorReply(i) ==
    \E k \in 1..Len(wire) :
        /\ wire[k].rec = i
        /\ wire[k].reply.kind = "response"
        /\ wire[k].reply.rcode = "NOERROR"

\* Line i counts as published: upload_jwt returned and reported nothing.
Published(i) == outcome[i].state = "returned" /\ ~Reported(i)

\* C3: an update transaction ends in success if and only if a response came
\* and its code is NOERROR; any other end reaches the driver as a reported
\* error of the record, never as a publication.
C3_SuccessIffNoError ==
    \A i \in 1..Len(outcome) :
        (Called(i) /\ Finished(i)) =>
            \/ (Published(i) /\ NoErrorReply(i))
            \/ (~Published(i) /\ ~NoErrorReply(i)
                /\ outcome[i].state = "returned" /\ Reported(i))

\* update is set and zone and labelStripCount are both given or both absent.
BadZoneOptions ==
    /\ args.update_dns
    /\ (args.zone = None) = (args.subzone_labels = None)

\* Nothing of the input has been read, encoded, written or published.
NothingProcessed ==
    /\ input = <<>> /\ outcome = <<>> /\ out = <<>>
    /\ calls = <<>> /\ wire = <<>>
    /\ pc \in {"start", "tsig", "config", "done"}

\* The run ended on an error of its configuration: one of the two messages
\* of the startup followed by exit status 1, or the exception of the key file.
EndedOnConfigurationError ==
    /\ status = Some(1)
    /\ input = <<>>
    /\ \/ /\ stderr # <<>>
          /\ stderr[Len(stderr)].rec = 0
          /\ stderr[Len(stderr)].text \in
                {"Exactly one of --zone or --subzone_labels must be used with --update_dns.",
                 "Invalid server name"}
       \/ exc.msg = "tsigkeyring.from_text"

\* C4: with update set and zone and labelStripCount both given or both
\* absent, the run ends on a configuration error, and no record is ever
\* read, encoded, written to the output or published.
C4_ConfigErrorBeforeRecords ==
    BadZoneOptions =>
        /\ NothingProcessed
        /\ (pc = "done" => EndedOnConfigurationError)

\* A run with bad zone options has ended on the message of the zone options.
C4_Witness ==
    /\ BadZoneOptions
    /\ nlines > 0
    /\ pc = "done"
    /\ stderr # <<>>
    /\ stderr[Len(stderr)].text =
          "Exactly one of --zone or --subzone_labels must be used with --update_dns."

\* The tokens of the lines that parse, in order.
RECURSIVE ExpectedTokens(_)
ExpectedTokens(lines) ==
    IF lines = <<>> THEN <<>>
    ELSE LET p == json_loads(Strip(Head(lines)))
         IN  (IF p.ok THEN <<jwt_encode(p.value, None)>> ELSE <<>>)
             \o ExpectedTokens(Tail(lines))

\* C5: the tokens written to the output are, in input order, the encodings
\* of exactly the lines of the input that parse as JSON: a run that began
\* and has an output file ends having read every line and written those
\* tokens; a malformed line is reported and leaves the loop running.
C5_OutputIsEncodingOfValidLines ==
    /\ (pc = "done" /\ ~FatalAtStartup /\ args.output_file) =>
          (Len(input) = nlines /\ out = ExpectedTokens(input))
    /\ \A i \in 1..Len(outcome) :
          ~json_loads(Strip(input[i])).ok =>
              (outcome[i].state = "skipped" /\ Reported(i))

\* Line i failed: it was skipped as invalid JSON, an exception ended the run
\* on it, or an error was reported for it.
RecordFailed(i) == outcome[i].state \in {"skipped", "raised"} \/ Reported(i)

\* C6: the exit status of a run that began tells whether a record failed: it
\* is 0 exactly when none did.
C6_ExitStatusReflectsFailure ==
    (pc = "done" /\ ~FatalAtStartup) =>
        ((status = Some(0)) <=> (\A i \in 1..Len(outcome) : ~RecordFailed(i)))

\* upload_jwt turned the target of line i down for its scheme.
SchemeRejected(i) ==
    outcome[i].state = "raised" /\ outcome[i].exc.msg = "Incorrect scheme"

\* C7, as claimed: a diem_id passes the scheme check only when its scheme is
\* written exactly 'dns'.
C7_SchemeExactCase ==
    \A i \in 1..Len(outcome) :
        (Validated(i) /\ ~SchemeRejected(i)) => RawScheme(UrlOf(i)) = S_dns

\* C7, amended: a diem_id passes the scheme check exactly when its scheme,
\* lower-cased, is 'dns'; one turned down is turned down with a ValueError,
\* before any lookup, and no update is sent for it.
C7_SchemeCaseInsensitive ==
    \A i \in 1..Len(outcome) :
        Validated(i) =>
            /\ SchemeRejected(i) <=> (Lower(RawScheme(UrlOf(i))) # S_dns)
            /\ SchemeRejected(i) =>
                  /\ outcome[i].exc.type = "ValueError"
                  /\ ~LookedUp(i) /\ ~Called(i) /\ ~Transmitted(i)

\* A diem_id written 'DNS:' has passed the checks, and one of another scheme
\* has been turned down.
C7_Witness ==
    \E i \in 1..Len(outcome) :
        /\ Validated(i)
        /\ RawScheme(UrlOf(i)) # S_dns
        /\ Lower(RawScheme(UrlOf(i))) = S_dns
        /\ ~SchemeRejected(i)
        /\ outcome[i].state = "uploading"

\* C8: a diem_id whose query does not hold both CLASS=IN and TYPE=TXT is
\* turned down with the error kind of a bad scheme (a ValueError), and no
\* update is sent for it.
C8_BadQueryIsInvalidTarget ==
    \A i \in 1..Len(outcome) :
        (Validated(i) /\ ~HasClassInTypeTxt(UrlOf(i))) =>
            /\ outcome[i].state = "raised"
            /\ outcome[i].exc.type = "ValueError"
            /\ ~Called(i) /\ ~Transmitted(i)

\* The owner of the diem_id of line i does not lie under the given zone.
OwnerOutsideZone(i) ==
    /\ args.zone # None
    /\ ~UnderZone(OwnerLabels(RawOwner(UrlOf(i))), args.zone[1])

\* C9: with a zone given, a diem_id whose owner is neither the zone nor
\* below it is turned down before any lookup or update for that line; when
\* its scheme and query are in order, the error is the invalid-target error
\* 'Name out of zone' naming the owner.
C9_OutOfZoneRejected ==
    \A i \in 1..Len(outcome) :
        (Validated(i) /\ OwnerOutsideZone(i)) =>
            /\ outcome[i].state = "raised"
            /\ ~LookedUp(i) /\ ~Called(i) /\ ~Transmitted(i)
            /\ (Lower(RawScheme(UrlOf(i))) = S_dns /\ HasClassInTypeTxt(UrlOf(i)))
                  => outcome[i].exc =
                        Exc("ValueError", "Name out of zone", <<RawOwner(UrlOf(i))>>)

\* An owner outside the given zone has been turned down as out of zone.
C9_Witness ==
    \E i \in 1..Len(outcome) :
        /\ Validated(i) /\ OwnerOutsideZone(i)
        /\ outcome[i].exc.msg = "Name out of zone"

\* A lookup made for line i failed.
ResolutionFailed(i) ==
    \E k \in 1..Len(net) : net[k].rec = i /\ net[k].result = None

\* The zone upload_jwt works with for line i: the zone given, or the owner
\* without its first subzone_labels labels.
ZoneOf(i) ==
    IF args.zone # None THEN args.zone[1]
    ELSE LabelsFrom(OwnerLabels(RawOwner(UrlOf(i))), args.subzone_labels[1])

\* C10: when the zone has no SOA/MNAME or the server name has no address,
\* upload_jwt fails with a resolution error that names the zone, and
\* send_update is never called with no server address.
C10_ResolutionFailureRaises ==
    /\ \A k \in 1..Len(calls) : calls[k].server # None
    /\ \A i \in 1..Len(outcome) :
          (Uploads(i) /\ Finished(i) /\ ResolutionFailed(i)) =>
              /\ outcome[i].exc.type = "ValueError"
              /\ outcome[i].exc.detail = <<ZoneOf(i)>>

\* The states in which a line is no longer being worked on.
Settled(i) == outcome[i].state \in {"skipped", "encoded", "returned", "raised"}

\* The line numbers of a log (calls or wire) increase strictly: the log is a
\* subsequence of the input and no line appears in it twice.
InInputOrder(log) ==
    /\ \A k \in 1..Len(log) : log[k].rec \in 1..Len(input)
    /\ \A j, k \in 1..Len(log) : j < k => log[j].rec < log[k].rec

RECURSIVE Concat(_)
Concat(parts) == IF parts = <<>> THEN <<>> ELSE parts[1] \o Concat(Tail(parts))

\* C12: the pieces the chunker makes of a text, concatenated in order, are
\* the text; no piece is longer than MAX_TXT_STRING_LEN (255); the empty text
\* gives no piece.
C12_ChunksReproduceToken ==
    (call.fn = "jwt_parts" /\ call.done) =>
        /\ Concat(call.ret) = call.arg
        /\ \A k \in 1..Len(call.ret) : Len(call.ret[k]) <= MAX_TXT_STRING_LEN
        /\ (call.arg = <<>>) => (call.ret = <<>>)

\* C12's case: a text chunked into two full pieces and a shorter remainder.
C12_Witness ==
    /\ call.fn = "jwt_parts" /\ call.done
    /\ Len(call.arg) > 2 * MAX_TXT_STRING_LEN
    /\ Len(call.ret) = 3
    /\ Len(call.ret[3]) < MAX_TXT_STRING_LEN

\* C12's other case: the empty text has been chunked.
C12_WitnessEmpty == call.fn = "jwt_parts" /\ call.done /\ call.arg = <<>>

\* A token decoded after jwt_encode made it: what it was made from
Encoded == call.fn = "jwt_decode" /\ call.src # <<>>

\* The segments of a token: what precedes and what follows its first '.'
HdrSegment(t) == Split1(t, 46)[1]
ClaimsSegment(t) == Split1(t, 46)[2]

C13_WitnessOnePad ==
    Encoded /\ call.done /\ Len(ClaimsSegment(call.arg)) % 4 = 3
C13_WitnessNoPad ==
    Encoded /\ call.done /\ Len(ClaimsSegment(call.arg)) % 4 = 0
C13_WitnessDefaultHeader ==
    Encoded /\ call.done /\ call.src[1].hdr = None /\ call.src[1].claims # <<>>

\* The exceptions that are decoding errors: ValueError and the classes
\* derived from it that base64, UTF-8 and JSON decoding raise.
IsDecodingError(e) ==
    e.type \in {"ValueError", "binascii.Error", "UnicodeDecodeError",
                "JSONDecodeError"}

\* The tokens C14 is about: no '.', or a segment of length 1 modulo 4
Undecodable(t) ==
    \/ Find(t, 46) = 0
    \/ Len(HdrSegment(t)) % 4 = 1
    \/ Len(ClaimsSegment(t)) % 4 = 1

\* C14: jwt_decode returns no value, and raises a decoding error, for a
\* token with no '.' and for a token whose header segment or claims segment
\* has a length of 1 modulo 4.
C14_BadTokenRaises ==
    (call.fn = "jwt_decode" /\ call.done /\ Undecodable(call.arg)) =>
        /\ call.raised
        /\ IsDecodingError(call.exc)
        /\ call.ret = [hdr |-> <<>>, claims |-> <<>>]

\* C14's case: a token whose header segment decodes to a JSON object and
\* whose claims segment has a length of 1 modulo 4 has been refused.
C14_Witness ==
    /\ call.fn = "jwt_decode" /\ call.done
    /\ Find(call.arg, 46) > 0
    /\ ~jwt_base64decode(HdrSegment(call.arg)).raised
    /\ json_loads(jwt_base64decode(HdrSegment(call.arg)).value).ok
    /\ Len(ClaimsSegment(call.arg)) % 4 = 1
    /\ call.raised

\* C14's other cases: no '.'; a header segment of length 1 modulo 4
C14_WitnessNoDot ==
    call.fn = "jwt_decode" /\ call.done /\ Find(call.arg, 46) = 0 /\ call.raised
C14_WitnessHeader ==
    /\ call.fn = "jwt_decode" /\ call.done /\ Find(call.arg, 46) > 0
    /\ Len(HdrSegment(call.arg)) % 4 = 1 /\ call.raised

\* A token given to jwt_decode on its own has been decoded to a value.
C14_WitnessDecoded ==
    call.fn = "jwt_decode" /\ call.done /\ ~Encoded /\ ~call.raised

\* A diem_id made by an importer has been through the checks of upload_jwt.
Resolved == call.fn = "upload_jwt" /\ call.src # <<>> /\ call.done

\* C15: the diem_id of a claim record made by any of the importers passes
\* the scheme and CLASS=IN/TYPE=TXT checks of upload_jwt, and the owner name
\* it gives is not empty.
C15_ImporterIdsAccepted ==
    Resolved =>
        /\ ~call.raised
        /\ call.ret.name # Some(root)

\* Of the importers that write the location after 'dns:' and end with
\* '?CLASS=IN;TYPE=TXT': their diem_id is accepted, and the owner is
\* '_diem.<id>.<suffix>'.
ColonFormAccepted ==
    (Resolved /\ call.src[1].importer # "locationdb") =>
        /\ ~call.raised
        /\ call.ret.rdtype = S_TXT
        /\ Len(call.ret.name[1]) >= 3
        /\ call.ret.name[1][1] = DIEM_PREFIX

\* Of locationdb/importdb.py: its diem_id is refused for want of a query.
AuthorityFormRefused ==
    (Resolved /\ call.src[1].importer = "locationdb") =>
        /\ call.raised
        /\ call.exc = Exc("ValueError", "dictionary update sequence element", <<>>)

\* A domain name that can name a zone: it ends with the root label.
IsZoneName(zone) == zone # <<>> /\ zone[Len(zone)] = <<>>

\* A name without its n left-most labels (nothing is left of it when it has
\* no more than n)
WithoutLeftmost(name, n) ==
    IF n >= Len(name) THEN <<>> ELSE SubSeq(name, n + 1, Len(name))

\* The owner and the zone of a call of send_update are as C16 says.
OwnerInZone(c) ==
    /\ IsZoneName(c.zone)
    /\ UnderZone(c.name, c.zone)
    /\ (args.zone = None) =>
          (c.zone = WithoutLeftmost(c.name, args.subzone_labels[1]))

\* C16: in every call of send_update that upload_jwt makes, the owner name
\* is the zone name or below it; when the zone is derived by stripping
\* labels it is the owner without its subzone_labels left-most labels,
\* whatever the count (0, or the owner's number of labels or more).
C16_OwnerUnderZone ==
    \A k \in 1..Len(calls) : OwnerInZone(calls[k])

\* Of the strip counts that leave at least the root label: the calls are as
\* C16 says.
OwnerUnderZoneWhenLabelsRemain ==
    \A k \in 1..Len(calls) :
        (args.zone # None \/ args.subzone_labels[1] < Len(calls[k].name)) =>
            OwnerInZone(calls[k])

\* A call was made with a zone derived by stripping no label, and one with a
\* zone derived by stripping one.
CalledWithStrip(n) ==
    /\ args.zone = None /\ args.subzone_labels = Some(n)
    /\ calls # <<>>
CalledWithStripZero == CalledWithStrip(0)
CalledWithStripOne == CalledWithStrip(1)

\* The occurrences of a pattern in a line from position `from` on, in the
\* order of the text, none overlapping another: the values of their groups.
RECURSIVE Occurrences(_, _, _)
Occurrences(line, from, pattern) ==
    IF \E p \in from..Len(line) : MatchAt(line, p, pattern).ok
    THEN LET p == CHOOSE p \in from..Len(line) :
                     /\ MatchAt(line, p, pattern).ok
                     /\ \A r \in from..(p-1) : ~MatchAt(line, r, pattern).ok
             m == MatchAt(line, p, pattern)
         IN  <<m.group>> \o Occurrences(line, m.end, pattern)
    ELSE <<>>

\* The occurrences of a pattern in a whole file, in the order of the text
RECURSIVE FileOccurrences(_, _)
FileOccurrences(file, pattern) ==
    IF file = <<>> THEN <<>>
    ELSE FileOccurrences(SubSeq(file, 1, Len(file) - 1), pattern)
         \o Occurrences(Strip(file[Len(file)]), 1, pattern)

\* The last occurrence of a pattern in the file; None when it has none
LastInFile(file, pattern) ==
    LET o == FileOccurrences(file, pattern)
    IN  IF o = <<>> THEN None ELSE Some(o[Len(o)])

\* The first occurrence of a pattern in the last line of the file that has
\* one; None when no line has one
FirstInLastLine(file, pattern) ==
    LET Has(i) == Occurrences(Strip(file[i]), 1, pattern) # <<>>
    IN  IF \E i \in 1..Len(file) : Has(i)
        THEN LET i == CHOOSE i \in 1..Len(file) :
                         Has(i) /\ \A j \in (i+1)..Len(file) : ~Has(j)
             IN  Some(Occurrences(Strip(file[i]), 1, pattern)[1])
        ELSE None

\* The key loader has returned.
KeyLoaded == call.fn = "parse_tsig_key_file" /\ call.done /\ ~call.raised

\* C17 as stated: the key name, the algorithm and the secret returned are
\* each the last occurrence of its pattern in the whole file, on whatever
\* line the occurrences are.
C17_LastOccurrenceInFile ==
    KeyLoaded =>
        /\ Some(call.ret.keyring[1].name) = LastInFile(call.arg, "key")
        /\ Some(call.ret.keyring[1].secret) = LastInFile(call.arg, "secret")
        /\ call.ret.alg = LastInFile(call.arg, "alg")

\* C17, amended: the key name, the algorithm and the secret returned are
\* each the first occurrence of its pattern in the last line that has one,
\* the three patterns being matched independently.
C17_FirstOccurrenceOfLastLine ==
    KeyLoaded =>
        /\ Some(call.ret.keyring[1].name) = FirstInLastLine(call.arg, "key")
        /\ Some(call.ret.keyring[1].secret) = FirstInLastLine(call.arg, "secret")
        /\ call.ret.alg = FirstInLastLine(call.arg, "alg")

\* C17's case: the key name is repeated on two lines, and the last of
\* these lines has it twice.
C17_Witness ==
    /\ KeyLoaded
    /\ Len(call.arg) = 2
    /\ Occurrences(Strip(call.arg[1]), 1, "key") # <<>>
    /\ Len(Occurrences(Strip(call.arg[2]), 1, "key")) = 2
    /\ call.ret.keyring[1].name # LastInFile(call.arg, "key")[1]

\* C17's other case: occurrences on different lines only
C17_WitnessLines ==
    /\ KeyLoaded
    /\ Len(call.arg) = 2
    /\ Len(Occurrences(Strip(call.arg[1]), 1, "key")) = 1
    /\ Len(Occurrences(Strip(call.arg[2]), 1, "key")) = 1
    /\ call.arg[1] # call.arg[2]
    /\ Some(call.ret.keyring[1].name) = LastInFile(call.arg, "key")

\* main is past its initialization and has not ended.
InRecords == pc \in {"loop", "validate", "mname", "addr", "send"}

\* The target upload_jwt derives from the diem_id of line `rec` and the
\* command line
TargetOf(rec) ==
    LET claims == json_loads(Strip(input[rec])).value
    IN  upload_jwt_target(DictGet(claims, S_diem_id)[1], args.zone,
                          args.subzone_labels)

\* The address the last lookup made for line `rec` gave
AddressFor(rec) ==
    LET idx == { i \in 1..Len(net) :
                   net[i].rec = rec /\ net[i].op = "getaddrinfo" }
        last == CHOOSE i \in idx : \A j \in idx : j <= i
    IN  net[last].result

C18_WitnessEntered ==
    /\ pc = "validate"
    /\ Len(input) = 2
    /\ args.zone # None
    /\ args.server # None

\* The host bits of an address given as its words (8-bit octets for IPv4,
\* 16-bit groups for IPv6), most significant first, are not all zero.
HostBitsNonZero(a, prefixlen) ==
    LET word_bits == IF a.version = 4 THEN 8 ELSE 16
        n == Len(a.words)
        host_bits == n * word_bits - prefixlen
        \* the number of host bits within word i
        InWord(i) ==
            LET below == (n - i) * word_bits
            IN  IF host_bits <= below THEN 0
                ELSE IF host_bits >= below + word_bits THEN word_bits
                ELSE host_bits - below
    IN  \E i \in 1..n : a.words[i] % Pow2(InWord(i)) # 0

\* The labels of the reverse pointer that cover the first prefixlen bits:
\* decimal octets for IPv4, hex digits for IPv6, the last one first.
CoveringLabels(a, prefixlen) ==
    LET label_bits == IF a.version = 4 THEN 8 ELSE 4
        count == (prefixlen + label_bits - 1) \div label_bits
        Digit(i) ==
            LET w == a.words[((i - 1) \div 4) + 1]
                k == (i - 1) % 4
            IN  (w \div Pow2(4 * (3 - k))) % 16
        Label(i) == IF a.version = 4 THEN IntToStr(a.words[i])
                    ELSE <<HexChar(Digit(i))>>
    IN  [i \in 1..count |-> Label(count + 1 - i)]

\* '<len>.ip' or '<len>.ip6' as labels
FamilyLabels(a, prefixlen) ==
    <<IntToStr(prefixlen),
      IF a.version = 4 THEN <<105,112>> ELSE <<105,112,54>> >>

\* What prefix_to_id is said to do with the prefix of call.src
PrefixIdAsClaimed ==
    LET a == call.src
        labels == Split(call.ret, 46)
    IN  /\ call.raised <=> HostBitsNonZero(a, a.prefixlen)
        /\ call.raised => call.exc.type = "ValueError"
        /\ ~call.raised =>
              /\ labels = CoveringLabels(a, a.prefixlen)
                          \o FamilyLabels(a, a.prefixlen)
              /\ \A i \in 1..Len(labels) : labels[i] # <<>>

PrefixDone == call.fn = "prefix_to_id" /\ call.done

\* C19: prefix_to_id raises ValueError if and only if the address has a
\* non-zero host bit; otherwise it returns the reverse-pointer labels that
\* cover the prefix followed by '<len>.ip' or '<len>.ip6', none of the
\* labels being empty.
C19_PrefixId == PrefixDone => PrefixIdAsClaimed

\* The same for the prefixes of length 1 and more
PrefixIdWhenLengthPositive ==
    (PrefixDone /\ call.src.prefixlen >= 1) => PrefixIdAsClaimed

\* For every prefix, length 0 included, the exception is raised if and only
\* if a host bit is not zero.
PrefixRaisesIffHostBits ==
    PrefixDone => (call.raised <=> HostBitsNonZero(call.src, call.src.prefixlen))

\* A prefix whose boundary falls inside a label has been converted
PrefixInsideLabelConverted ==
    /\ PrefixDone
    /\ ~call.raised
    /\ call.src.version = 6
    /\ call.src.prefixlen % 4 = 1
    /\ call.src.words[3] # 0

\* A prefix whose boundary falls inside a label has been refused for a bit
\* of that label
PrefixInsideLabelRefused ==
    /\ PrefixDone
    /\ call.raised
    /\ call.src.version = 4
    /\ call.src.prefixlen = 8
    /\ call.src.words = <<10,128,0,0>>

\* The prefix of length 0 gives an id that starts with an empty label
PrefixZeroHasEmptyLabel ==
    /\ PrefixDone
    /\ ~call.raised
    /\ call.src.prefixlen = 0
    /\ Head(call.ret) = 46

====
